---- MODULE Spec2Model ----
(***************************************************************************)
(* State-machine model of the interaction engine of src/index.js: the rate *)
(* limiters, the per-chat session store, the admin-permission cache, the   *)
(* subscription gate, the admin wizard interpreter and the broadcast       *)
(* controller.                                                             *)
(*                                                                         *)
(* Every handler is a function from a world (the record of all program     *)
(* state) and its input to the world it leaves; an action applies one      *)
(* handler.  Time is in milliseconds, as Date.now() gives it.              *)
(*                                                                         *)
(* Environment: the transport answers the actor whose update is being      *)
(* handled (that chat has just written to the bot, so the send does not    *)
(* fail with 403); relays to broadcast recipients may fail in any way.     *)
(* Movie documents are identified by their code (the model's _id).         *)
(***************************************************************************)
EXTENDS Integers, Sequences, FiniteSets, TLC

VARIABLES
    now,                 \* Date.now()
    floodMap,            \* Map chatId -> time of the last accepted message
    downloadLimitMap,    \* Map chatId -> time of the last accepted download
    state,               \* Map chatId -> session
    adminCache,          \* Map chatId -> [isAdmin, expire]
    broadcastController, \* [isActive, shouldStop]
    users,               \* User collection, by telegramId
    movies,              \* Movie collection, by code
    admins,              \* Admin collection, by telegramId: granted capabilities
    channels,            \* Channel collection, by channelId
    jobs,                \* running startBroadcast invocations, by initiator
    pendingConfirm,      \* confirm_broadcast handlers suspended at safeDelete
    pendingWrite,        \* handleAdminInput invocations suspended at a store write
    ev,                  \* the update handled last, its input, what it sent and
                         \* what bot.getChatMember answered while it was handled
    lastAccepted,        \* history: when the flood gate last let each chat through
    relayLog,            \* history: the recipients the latest job found eligible and
                         \* what bot.copyMessage did for each one it tried
    lastDownload         \* history: when each chat's download last got past the
                         \* wait notice

vars == <<now, floodMap, downloadLimitMap, state, adminCache, broadcastController,
          users, movies, admins, channels, jobs, pendingConfirm, pendingWrite, ev,
          lastAccepted,
          relayLog, lastDownload>>

----------------------------------------------------------------------------
(* CONFIG *)
superAdminId     == 1
floodLimit       == 800
downloadCooldown == 5000
stateTTL         == 30 * 60 * 1000
adminCacheTTL    == 60 * 1000
currentYear      == 2026

(* Bounds of the model *)
MaxCode   == 1      \* content codes 1..MaxCode
MaxTicks  == 5      \* flood windows that pass within one run
MaxJumps  == 1      \* idle periods longer than the session TTL within one run

Actors == {1, 2, 3}   \* chats; chat 1 is the super-operator
Codes  == 1..MaxCode
Perms  == {"movies", "channels", "settings", "users", "broadcast", "admins"}

\* The process starts long after the epoch: Date.now() exceeds every window.
StartTime == 2 * stateTTL

----------------------------------------------------------------------------
(* Keyed tables (Map, collections) are functions on the set of their keys. *)

Has(m, k)    == k \in DOMAIN m
Put(m, k, v) == [x \in (DOMAIN m) \cup {k} |-> IF x = k THEN v ELSE m[x]]
Del(m, k)    == [x \in (DOMAIN m) \ {k} |-> m[x]]
Empty        == [x \in {} |-> 0]

World ==
    [now |-> now, floodMap |-> floodMap, downloadLimitMap |-> downloadLimitMap,
     state |-> state, adminCache |-> adminCache,
     broadcastController |-> broadcastController, users |-> users,
     movies |-> movies, admins |-> admins, channels |-> channels,
     jobs |-> jobs, pendingConfirm |-> pendingConfirm,
     pendingWrite |-> pendingWrite, ev |-> ev]

Becomes(w) ==
    /\ now' = w.now
    /\ floodMap' = w.floodMap
    /\ downloadLimitMap' = w.downloadLimitMap
    /\ state' = w.state
    /\ adminCache' = w.adminCache
    /\ broadcastController' = w.broadcastController
    /\ users' = w.users
    /\ movies' = w.movies
    /\ admins' = w.admins
    /\ channels' = w.channels
    /\ jobs' = w.jobs
    /\ pendingConfirm' = w.pendingConfirm
    /\ pendingWrite' = w.pendingWrite
    /\ ev' = w.ev

\* The handler of update `op` from `a` with input `in` starts: nothing sent yet.
NoInput == [kind |-> "none"]
Begin(w, op, a, in) ==
    [w EXCEPT !.ev = [op |-> op, actor |-> a, in |-> in, out |-> {}, seen |-> Empty]]

----------------------------------------------------------------------------
(* Texts.  A text is a string; the string functions of the source are      *)
(* tabulated on the texts the updates of the model carry.                  *)

Numerals     == Actors \cup Codes \cup {2004, 1900}
NumeralTexts == {ToString(n) : n \in Numerals}

\* parseInt(text): the number, for a text that is a numeral; NaN otherwise.
isNaN(t)    == t \notin NumeralTexts
parseInt(t) == CHOOSE n \in Numerals : ToString(n) = t

\* /^\d+$/.test(text)
IsDigits(t) == t \in NumeralTexts

\* text.startsWith('/start'), text.startsWith('/start '), text.split(' ')[1]
StartsWithStart(t)      == t \in {"/start"} \cup {"/start " \o n : n \in NumeralTexts}
StartsWithStartSpace(t) == t \in {"/start " \o n : n \in NumeralTexts}
StartArg(t) ==
    IF StartsWithStartSpace(t)
    THEN CHOOSE n \in NumeralTexts : t = "/start " \o n
    ELSE "undefined"

\* sanitize(str): '' for a falsy str, else the HTML-escaped, trimmed text.
sanitize(t) ==
    CASE t = "a<b" -> "a&lt;b"
      [] OTHER     -> t

----------------------------------------------------------------------------
(* safeSend(chatId, text): the reply is sent; when the transport refuses   *)
(* it with 403 the recipient is marked inactive.                           *)
safeSend(w, chatId, tag, outcome) ==
    IF outcome = "ok"
    THEN [w EXCEPT !.ev.out = @ \cup {<<chatId, tag>>}]
    ELSE IF outcome = "403" /\ Has(w.users, chatId)
         THEN [w EXCEPT !.users[chatId].isActive = FALSE]
         ELSE w

Reply(w, chatId, tag) == safeSend(w, chatId, tag, "ok")

----------------------------------------------------------------------------
(* Rate limiters *)

isFloodingVal_HalfWindow(w, userId) ==
    LET last == IF Has(w.floodMap, userId) THEN w.floodMap[userId] ELSE 0
    IN  w.now - last < floodLimit \div 2

isFloodingVal(w, userId) ==
    LET last == IF Has(w.floodMap, userId) THEN w.floodMap[userId] ELSE 0
    IN  w.now - last < floodLimit

\* The flood gate that records the time of every call.
isFlooding_Touches(w, userId) ==
    [w EXCEPT !.floodMap = Put(@, userId, w.now)]

isFlooding(w, userId) ==
    IF isFloodingVal(w, userId) THEN w
    ELSE [w EXCEPT !.floodMap = Put(@, userId, w.now)]

\* The download limiter with the window of the flood gate.
isDownloadFloodingVal_FloodWindow(w, userId) ==
    LET last == IF Has(w.downloadLimitMap, userId) THEN w.downloadLimitMap[userId] ELSE 0
    IN  w.now - last < floodLimit

isDownloadFloodingVal(w, userId) ==
    LET last == IF Has(w.downloadLimitMap, userId) THEN w.downloadLimitMap[userId] ELSE 0
    IN  w.now - last < downloadCooldown

isDownloadFlooding(w, userId) ==
    IF isDownloadFloodingVal(w, userId) THEN w
    ELSE [w EXCEPT !.downloadLimitMap = Put(@, userId, w.now)]

\* The sweep that evicts flood entries a quarter of a window old.
Cleanup_EvictsInWindow(w) ==
    [w EXCEPT
       !.ev.out = {<<x, "session_evicted">> :
                      x \in {k \in DOMAIN w.state : w.now - w.state[k].timestamp > stateTTL}},
       !.floodMap = [k \in {x \in DOMAIN @ : ~(w.now - @[x] > floodLimit \div 4)} |-> @[k]],
       !.downloadLimitMap =
            [k \in {x \in DOMAIN @ : ~(w.now - @[x] > downloadCooldown)} |-> @[k]],
       !.state = [k \in {x \in DOMAIN @ : ~(w.now - @[x].timestamp > stateTTL)} |-> @[k]],
       !.adminCache = [k \in {x \in DOMAIN @ : ~(w.now > @[x].expire)} |-> @[k]]]

(* Memory Cleanup Service: the setInterval callback.  ev.out lists the    *)
(* sessions it evicts.                                                     *)
Cleanup(w) ==
    [w EXCEPT
       !.ev.out = {<<x, "session_evicted">> :
                      x \in {k \in DOMAIN w.state : w.now - w.state[k].timestamp > stateTTL}},
       !.floodMap = [k \in {x \in DOMAIN @ : ~(w.now - @[x] > floodLimit * 2)} |-> @[k]],
       !.downloadLimitMap =
            [k \in {x \in DOMAIN @ : ~(w.now - @[x] > downloadCooldown)} |-> @[k]],
       !.state = [k \in {x \in DOMAIN @ : ~(w.now - @[x].timestamp > stateTTL)} |-> @[k]],
       !.adminCache = [k \in {x \in DOMAIN @ : ~(w.now > @[x].expire)} |-> @[k]]]

----------------------------------------------------------------------------
(* Permission cache *)

\* isUserAdmin without the shortcut for the super-operator.
isUserAdminVal_NoShortcut(w, userId) ==
    IF Has(w.adminCache, userId) /\ w.adminCache[userId].expire > w.now
    THEN w.adminCache[userId].isAdmin
    ELSE Has(w.admins, userId)

\* isUserAdmin that trusts a cache entry of any age.
isUserAdminVal_AnyAge(w, userId) ==
    IF userId = superAdminId THEN TRUE
    ELSE IF Has(w.adminCache, userId)
         THEN w.adminCache[userId].isAdmin
         ELSE Has(w.admins, userId)

isUserAdminVal(w, userId) ==
    IF userId = superAdminId THEN TRUE
    ELSE IF Has(w.adminCache, userId) /\ w.adminCache[userId].expire > w.now
         THEN w.adminCache[userId].isAdmin
         ELSE Has(w.admins, userId)

isUserAdmin(w, userId) ==
    IF userId = superAdminId THEN w
    ELSE IF Has(w.adminCache, userId) /\ w.adminCache[userId].expire > w.now
         THEN w
         ELSE [w EXCEPT !.adminCache =
                  Put(@, userId, [isAdmin |-> Has(w.admins, userId),
                                  expire  |-> w.now + adminCacheTTL])]

\* hasPermission answered from the cache while its entry is fresh.
hasPermission_FromCache(w, userId, perm) ==
    IF userId = superAdminId THEN TRUE
    ELSE IF Has(w.adminCache, userId) /\ w.adminCache[userId].expire > w.now
         THEN w.adminCache[userId].isAdmin
         ELSE Has(w.admins, userId) /\ perm \in w.admins[userId]

hasPermission(w, userId, perm) ==
    IF userId = superAdminId THEN TRUE
    ELSE IF ~Has(w.admins, userId) THEN FALSE
         ELSE perm \in w.admins[userId]

----------------------------------------------------------------------------
(* Sessions: the values of the state Map.  A field the source leaves       *)
(* undefined holds "none" / "undefined" / Empty / 0.                       *)

NoMsg == [kind |-> "none", text |-> "", file |-> ""]

NewSession(action, perm, ts) ==
    [action |-> action, step |-> "none", contentType |-> "none",
     permissionRequired |-> perm, timestamp |-> ts, pendingCode |-> "undefined",
     data |-> Empty, movieId |-> 0, field |-> "none", type |-> "none",
     msg |-> NoMsg, tempEpisodeData |-> Empty]

DefaultPermissions == {"movies", "channels", "users"}

NewUser == [isBanned |-> FALSE, isActive |-> TRUE, birthYear |-> 0]

----------------------------------------------------------------------------
(* Subscription gate.  memb gives, per channel, what bot.getChatMember     *)
(* answers for this actor now: a status, or "error" when the call throws.  *)

\* checkSubscription that counts a channel whose query threw as missing.
checkSubscriptionVal_ErrorIsMissing(w, userId, memb) ==
    IF isUserAdminVal(w, userId) THEN {}
    ELSE {ch \in DOMAIN w.channels : memb[ch] \in {"left", "kicked", "error"}}

checkSubscriptionVal(w, userId, memb) ==
    IF isUserAdminVal(w, userId) THEN {}
    ELSE {ch \in DOMAIN w.channels : memb[ch] \in {"left", "kicked"}}

\* What checkSubscription leaves behind: the cache entry isUserAdmin wrote
\* and, for an actor who is no admin, the answers of the transport.
checkSubscription(w, userId, memb) ==
    IF isUserAdminVal(w, userId) THEN isUserAdmin(w, userId)
    ELSE [isUserAdmin(w, userId) EXCEPT !.ev.seen = memb]

(* Panels: presentation; showAdminPanel asks isUserAdmin first. *)
showAdminPanel(w, chatId) ==
    IF isUserAdminVal(w, chatId)
    THEN Reply(isUserAdmin(w, chatId), chatId, "admin_panel")
    ELSE isUserAdmin(w, chatId)

showMovieCard(w, chatId, code) ==
    IF isNaN(code) \/ ~Has(w.movies, parseInt(code))
    THEN Reply(w, chatId, "card_not_found")
    ELSE Reply(w, chatId, "card:" \o code)

\* One join button per missing channel, and the check button.
sendSubRequest(w, chatId, missing) ==
    [Reply(w, chatId, "sub_request") EXCEPT
        !.ev.out = @ \cup {<<chatId, "join:" \o ch>> : ch \in missing}]

handleMovieCodeRequest(w, chatId, codeStr, memb) ==
    LET w1 == checkSubscription(w, chatId, memb)
        missing == checkSubscriptionVal(w, chatId, memb)
    IN  IF missing # {}
        THEN sendSubRequest(
                 [w1 EXCEPT !.state = Put(@, chatId,
                     [NewSession("WAITING_SUB", "none", w.now)
                        EXCEPT !.pendingCode = codeStr])], chatId, missing)
        ELSE showMovieCard(w1, chatId, codeStr)

----------------------------------------------------------------------------
(* handleAdminInput(chatId, msg): the wizard interpreter.  msg is          *)
(* [kind, text, file]: kind "text", "photo" or "video", text the trimmed   *)
(* text or caption, file the file_id of the photo or video.  chat is what  *)
(* bot.getChat answers for a username: a channel id, or "error".           *)

\* Movie.create(finalData) of the Code step
NewMovie(st, chatId) ==
    [contentType |-> st.contentType,
     fields  |-> IF st.contentType = "series"
                 THEN [f \in (DOMAIN st.data) \ {"fileId"} |-> st.data[f]]
                 ELSE st.data,
     episodes |-> IF st.contentType = "series"
                  THEN << [number |-> 1, fileId |-> st.data["fileId"], name |-> "1-qism"] >>
                  ELSE << >>,
     addedBy |-> chatId]

Drop(w, chatId) == [w EXCEPT !.state = Del(@, chatId)]

\* The CODE step without the uniqueness lookup.
addContentCode_NoLookup(w, chatId, text) ==
    LET st == w.state[chatId]
    IN  IF isNaN(text) THEN Reply(w, chatId, "only_number")
        ELSE showAdminPanel(
                 Reply(Drop([w EXCEPT !.movies =
                                Put(@, parseInt(text), NewMovie(st, chatId))],
                            chatId),
                       chatId, "content_added"),
                 chatId)

addContentCode(w, chatId, text) ==
    LET st == w.state[chatId]
    IN  IF isNaN(text) THEN Reply(w, chatId, "only_number")
        ELSE IF Has(w.movies, parseInt(text)) THEN Reply(w, chatId, "code_taken")
        ELSE showAdminPanel(
                 Reply(Drop([w EXCEPT !.movies =
                                Put(@, parseInt(text), NewMovie(st, chatId))],
                            chatId),
                       chatId, "content_added"),
                 chatId)

addContent(w, chatId, msg) ==
    LET st == w.state[chatId]
        text == msg.text
        Advance(field, value, step) ==
            [w EXCEPT !.state[chatId].data = Put(@, field, value),
                      !.state[chatId].step = step]
    IN  CASE st.step = "VIDEO" ->
               IF msg.kind # "video" THEN Reply(w, chatId, "need_video")
               ELSE Reply([w EXCEPT !.state[chatId].data = [f \in {"fileId"} |-> msg.file],
                                    !.state[chatId].step = "POSTER"],
                          chatId, "ask_poster")
          [] st.step = "POSTER" ->
               IF msg.kind # "photo" THEN Reply(w, chatId, "need_photo")
               ELSE Reply(Advance("posterId", msg.file, "TITLE"), chatId, "ask_title")
          [] st.step = "TITLE" ->
               Reply(Advance("title", sanitize(text), "COUNTRY"), chatId, "ask_country")
          [] st.step = "COUNTRY" ->
               Reply(Advance("country", sanitize(text), "LANG"), chatId, "ask_language")
          [] st.step = "LANG" ->
               Reply(Advance("language", sanitize(text), "ADULT"), chatId, "ask_adult")
          [] st.step = "CODE" -> addContentCode(w, chatId, text)
          [] OTHER -> w

addEpisode(w, chatId, msg) ==
    LET st == w.state[chatId]
    IN  IF ~Has(w.movies, st.movieId)
        THEN Reply(Drop(w, chatId), chatId, "series_not_found")
        ELSE CASE st.step = "VIDEO" ->
                   IF msg.kind # "video" THEN Reply(w, chatId, "need_video")
                   ELSE Reply([w EXCEPT
                                 !.state[chatId].tempEpisodeData = [f \in {"fileId"} |-> msg.file],
                                 !.state[chatId].step = "NAME"],
                              chatId, "ask_episode_name")
               [] st.step = "NAME" ->
                   LET movie == w.movies[st.movieId]
                       nextEpNum == Len(movie.episodes) + 1
                   IN  Reply(Drop([w EXCEPT !.movies[st.movieId].episodes =
                                      Append(@, [number |-> nextEpNum,
                                                 fileId |-> st.tempEpisodeData["fileId"],
                                                 name   |-> sanitize(msg.text)])],
                                  chatId),
                             chatId, "episode_added")
               [] OTHER -> w

\* /^-100\d+$/.test(text)
IsChannelId(t) == t \in {"-1001", "-1002"}

\* The success notice of the URL step names the identifier.
channelAdded(w, chatId, channelId) ==
    [Reply(w, chatId, "channel_added") EXCEPT
        !.ev.out = @ \cup {<<chatId, "channel_id:" \o channelId>>}]

\* The URL step keyed by the text received instead of the resolved identifier.
addChannel_KeyedByUrl(w, chatId, msg, chat) ==
    LET st == w.state[chatId]
        text == msg.text
        channelId == IF IsChannelId(text) THEN text ELSE chat
    IN  CASE st.step = "NAME" ->
               Reply([w EXCEPT !.state[chatId].data = [f \in {"name"} |-> sanitize(text)],
                               !.state[chatId].step = "URL"],
                     chatId, "ask_channel_url")
          [] st.step = "URL" ->
               IF ~IsChannelId(text) /\ chat = "error"
               THEN Reply(w, chatId, "channel_error")
               ELSE channelAdded(Drop([w EXCEPT !.channels =
                                   Put(@, text, [name |-> st.data["name"],
                                                 url  |-> text,
                                                 type |-> st.type])],
                               chatId),
                          chatId, channelId)
          [] OTHER -> w

\* The URL step that gives the session up when the lookup fails.
addChannel_ErrorDrops(w, chatId, msg, chat) ==
    LET st == w.state[chatId]
        text == msg.text
        channelId == IF IsChannelId(text) THEN text ELSE chat
    IN  CASE st.step = "NAME" ->
               Reply([w EXCEPT !.state[chatId].data = [f \in {"name"} |-> sanitize(text)],
                               !.state[chatId].step = "URL"],
                     chatId, "ask_channel_url")
          [] st.step = "URL" ->
               IF ~IsChannelId(text) /\ chat = "error"
               THEN Reply(Drop(w, chatId), chatId, "channel_error")
               ELSE channelAdded(Drop([w EXCEPT !.channels =
                                   Put(@, channelId, [name |-> st.data["name"],
                                                      url  |-> text,
                                                      type |-> st.type])],
                               chatId),
                          chatId, channelId)
          [] OTHER -> w

\* chat is what bot.getChat answers for the username of the text: the
\* identifier of the channel, or "error".
addChannel(w, chatId, msg, chat) ==
    LET st == w.state[chatId]
        text == msg.text
        channelId == IF IsChannelId(text) THEN text ELSE chat
    IN  CASE st.step = "NAME" ->
               Reply([w EXCEPT !.state[chatId].data = [f \in {"name"} |-> sanitize(text)],
                               !.state[chatId].step = "URL"],
                     chatId, "ask_channel_url")
          [] st.step = "URL" ->
               IF ~IsChannelId(text) /\ chat = "error"
               THEN Reply(w, chatId, "channel_error")
               ELSE channelAdded(Drop([w EXCEPT !.channels =
                                   Put(@, channelId, [name |-> st.data["name"],
                                                      url  |-> text,
                                                      type |-> st.type])],
                               chatId),
                          chatId, channelId)
          [] OTHER -> w

editField(w, chatId, msg) ==
    LET st == w.state[chatId]
        Save(field, value) ==
            Reply(Drop([w EXCEPT !.movies[st.movieId].fields = Put(@, field, value)],
                       chatId),
                  chatId, "field_saved")
        Touch == Reply(Drop(w, chatId), chatId, "field_saved")
    IN  IF ~Has(w.movies, st.movieId)
        THEN Reply(Drop(w, chatId), chatId, "movie_not_found")
        ELSE CASE st.field = "title"   -> Save("title", sanitize(msg.text))
               [] st.field = "country" -> Save("country", sanitize(msg.text))
               [] st.field = "posterId" ->
                    IF msg.kind = "photo" THEN Save("posterId", msg.file)
                    ELSE Reply(w, chatId, "need_photo")
               [] st.field = "fileId" /\ w.movies[st.movieId].contentType = "movie" ->
                    IF msg.kind = "video" THEN Save("fileId", msg.file)
                    ELSE Reply(w, chatId, "need_video")
               [] OTHER -> Touch

\* The catch of handleAdminInput
adminInputError(w, chatId) == Reply(Drop(w, chatId), chatId, "system_error")

\* MANAGE_ADMIN_ID that writes a new record over an existing one.
manageAdminId_Overwrites(w, chatId, text) ==
    IF isNaN(text) THEN Reply(w, chatId, "only_numeric_id")
    ELSE IF parseInt(text) = superAdminId
         THEN Reply(w, chatId, "super_admin_untouchable")
         ELSE Reply(Drop([w EXCEPT !.admins = Put(@, parseInt(text), DefaultPermissions)],
                         chatId),
                    chatId, "perms_panel")

manageAdminId(w, chatId, text) ==
    IF isNaN(text) THEN Reply(w, chatId, "only_numeric_id")
    ELSE IF parseInt(text) = superAdminId
         THEN Reply(w, chatId, "super_admin_untouchable")
         ELSE Reply(Drop([w EXCEPT !.admins =
                            IF Has(@, parseInt(text)) THEN @
                            ELSE Put(@, parseInt(text), DefaultPermissions)],
                         chatId),
                    chatId, "perms_panel")

adminStep(w, chatId, msg, chat) ==
    LET st == w.state[chatId]
        text == msg.text
    IN       CASE st.action = "ADD_CONTENT" -> addContent(w, chatId, msg)
               [] st.action = "ADD_EPISODE" -> addEpisode(w, chatId, msg)
               [] st.action = "ADD_CHANNEL" -> addChannel(w, chatId, msg, chat)
               [] st.action = "EDIT_SEARCH" ->
                    \* Movie.findOne({ code: NaN }) throws a cast error
                    IF isNaN(text) THEN adminInputError(w, chatId)
                    ELSE IF ~Has(w.movies, parseInt(text))
                         THEN Reply(w, chatId, "not_found")
                         ELSE Reply(Drop(w, chatId), chatId, "edit_panel")
               [] st.action = "EDIT_FIELD" -> editField(w, chatId, msg)
               [] st.action = "BROADCAST" ->
                    Reply([w EXCEPT !.state[chatId].msg = msg], chatId, "ask_confirm")
               [] st.action = "SEARCH_USER" ->
                    IF isNaN(text) THEN Reply(w, chatId, "only_numeric_id")
                    ELSE IF Has(w.users, parseInt(text))
                         THEN Reply(Drop(w, chatId), chatId, "user_panel")
                         ELSE Reply(Drop(w, chatId), chatId, "user_not_found")
               [] st.action = "MANAGE_ADMIN_ID" -> manageAdminId(w, chatId, text)
               [] OTHER -> w

\* handleAdminInput without its capability check.
handleAdminInput_NoCheck(w, chatId, msg, chat) == adminStep(w, chatId, msg, chat)

handleAdminInput(w, chatId, msg, chat) ==
    LET st == w.state[chatId]
    IN  IF st.permissionRequired # "none" /\ ~hasPermission(w, chatId, st.permissionRequired)
        THEN Reply(Drop(w, chatId), chatId, "no_permission")
        ELSE adminStep(w, chatId, msg, chat)

----------------------------------------------------------------------------
(* bot.on('message') *)

upsertUser(w, chatId) ==
    [w EXCEPT !.users = IF Has(@, chatId)
                        THEN [@ EXCEPT ![chatId].isActive = TRUE]
                        ELSE Put(@, chatId, NewUser)]

askBirthYear(w, chatId, text, memb) ==
    LET st == w.state[chatId]
    IN  IF isNaN(text) \/ parseInt(text) < 1950 \/ parseInt(text) > currentYear
        THEN Reply(w, chatId, "bad_year")
        ELSE LET w1 == Reply(Drop([w EXCEPT !.users[chatId].birthYear = parseInt(text)],
                                  chatId),
                             chatId, "year_saved")
             IN  IF st.pendingCode # "undefined"
                 THEN handleMovieCodeRequest(w1, chatId, st.pendingCode, memb)
                 ELSE w1

\* After the state handler: birth year, /start, /admin, a content code.
noSession(w, chatId, text, memb) ==
    IF w.users[chatId].birthYear = 0
    THEN Reply([w EXCEPT !.state = Put(@, chatId,
                   [NewSession("ASK_BIRTH_YEAR", "none", w.now)
                      EXCEPT !.pendingCode = StartArg(text)])],
               chatId, "ask_birth_year")
    ELSE IF StartsWithStart(text)
    THEN LET args == StartArg(text)
             w1 == checkSubscription(w, chatId, memb)
             missing == checkSubscriptionVal(w, chatId, memb)
         IN  IF missing # {}
             THEN sendSubRequest(
                      IF args # "undefined"
                      THEN [w1 EXCEPT !.state = Put(@, chatId,
                               [NewSession("WAITING_SUB", "none", w.now)
                                  EXCEPT !.pendingCode = args])]
                      ELSE w1, chatId, missing)
             ELSE IF args # "undefined" /\ IsDigits(args)
                  THEN showMovieCard(w1, chatId, args)
                  ELSE IF isUserAdminVal(w1, chatId)
                       THEN showAdminPanel(w1, chatId)
                       ELSE Reply(w1, chatId, "welcome")
    ELSE IF text = "/admin" /\ isUserAdminVal(w, chatId)
    THEN showAdminPanel(w, chatId)
    ELSE IF text = "/admin"
    THEN isUserAdmin(w, chatId)
    ELSE IF IsDigits(text)
    THEN handleMovieCodeRequest(w, chatId, text, memb)
    ELSE w

\* The state handler past its expiry check.
sessionStep(w1, chatId, msg, memb, chat) ==
    LET st == w1.state[chatId]
    IN  IF st.action = "ASK_BIRTH_YEAR"
        THEN askBirthYear(w1, chatId, msg.text, memb)
        ELSE IF isUserAdminVal(w1, chatId)
        THEN handleAdminInput(isUserAdmin(w1, chatId), chatId, msg, chat)
        ELSE noSession(isUserAdmin(w1, chatId), chatId, msg.text, memb)

\* The state handler without its expiry check.
stateHandler_NoExpiry(w1, chatId, msg, memb, chat) ==
    sessionStep(w1, chatId, msg, memb, chat)

stateHandler(w1, chatId, msg, memb, chat) ==
    LET st == w1.state[chatId]
    IN  IF w1.now - st.timestamp > stateTTL
        THEN Reply(Drop(w1, chatId), chatId, "session_expired")
        ELSE sessionStep(w1, chatId, msg, memb, chat)

onMessage(w0, chatId, msg, memb, chat) ==
    LET w == Begin(w0, "message", chatId, msg)
    IN  IF isFloodingVal(w, chatId) THEN isFlooding(w, chatId)
        ELSE LET w1 == upsertUser(isFlooding(w, chatId), chatId)
             IN  IF w1.users[chatId].isBanned THEN w1
                 ELSE IF Has(w1.state, chatId)
                 THEN stateHandler(w1, chatId, msg, memb, chat)
                 ELSE noSession(w1, chatId, msg.text, memb)

\* bot.on('message') for a message that reaches handleAdminInput while the
\* store is down: Admin.findOne of hasPermission rejects.  The capability
\* check stands before the try of handleAdminInput, so the exception reaches
\* the catch of bot.on('message'), which logs it.
onMessageStoreDown(w0, chatId, msg) ==
    LET w  == Begin(w0, "message_store_down", chatId, msg)
        w1 == upsertUser(isFlooding(w, chatId), chatId)
    IN  isUserAdmin(w1, chatId)

----------------------------------------------------------------------------
(* handleAdminInput step by step.  Between the read of a step and its      *)
(* write the handler is suspended at an await and other handlers run.  A   *)
(* suspended invocation holds what it is about to write: the key of the    *)
(* movie and the document or episode built from what it read.              *)

\* The message reaches the step logic of handleAdminInput.
reachesStep(w, chatId) ==
    /\ ~isFloodingVal(w, chatId)
    /\ Has(w.users, chatId) /\ ~w.users[chatId].isBanned
    /\ Has(w.state, chatId) /\ ~(w.now - w.state[chatId].timestamp > stateTTL)
    /\ w.state[chatId].action # "ASK_BIRTH_YEAR"
    /\ isUserAdminVal(w, chatId)
    /\ \/ w.state[chatId].permissionRequired = "none"
       \/ hasPermission(w, chatId, w.state[chatId].permissionRequired)

\* bot.on('message') up to the await of the write.
suspendAt(w0, chatId, msg, write) ==
    LET w  == Begin(w0, "message", chatId, msg)
        w1 == isUserAdmin(upsertUser(isFlooding(w, chatId), chatId), chatId)
    IN  [w1 EXCEPT !.pendingWrite = Put(@, chatId, write)]

\* The CODE step up to Movie.create: Movie.findOne found no record.
codeStepRead(w0, chatId, msg) ==
    suspendAt(w0, chatId, msg,
              [at  |-> "create", key |-> parseInt(msg.text),
               doc |-> NewMovie(w0.state[chatId], chatId)])

\* Movie.create on a collection without the unique index on code.
codeStepCreate_NoUniqueIndex(w0, chatId) ==
    LET p == w0.pendingWrite[chatId]
        w == [Begin(w0, "movie_create", chatId, NoInput) EXCEPT !.pendingWrite = Del(@, chatId)]
    IN  showAdminPanel(
            Reply(Drop([w EXCEPT !.movies = Put(@, p.key, p.doc)], chatId),
                  chatId, "content_added"),
            chatId)

\* Movie.create resolves, or rejects with a duplicate key error on the
\* unique index of code, which the catch of handleAdminInput handles.
codeStepCreate(w0, chatId) ==
    LET p == w0.pendingWrite[chatId]
        w == [Begin(w0, "movie_create", chatId, NoInput) EXCEPT !.pendingWrite = Del(@, chatId)]
    IN  IF Has(w.movies, p.key)
        THEN adminInputError(w, chatId)
        ELSE showAdminPanel(
                 Reply(Drop([w EXCEPT !.movies = Put(@, p.key, p.doc)], chatId),
                       chatId, "content_added"),
                 chatId)

\* The NAME step of ADD_EPISODE up to movie.save(): the episode is pushed
\* onto the document read by Movie.findById, numbered one past its length.
episodeRead(w0, chatId, msg) ==
    LET st    == w0.state[chatId]
        movie == w0.movies[st.movieId]
    IN  suspendAt(w0, chatId, msg,
                  [at  |-> "save", key |-> st.movieId,
                   doc |-> [number |-> Len(movie.episodes) + 1,
                            fileId |-> st.tempEpisodeData["fileId"],
                            name   |-> sanitize(msg.text)]])

\* movie.save() resolves: the pushed element is written with $push, onto
\* whatever the stored array holds by then (a push makes Mongoose increment
\* the version but not test it).
episodeSave(w0, chatId) ==
    LET p == w0.pendingWrite[chatId]
        w == [Begin(w0, "movie_save", chatId, NoInput) EXCEPT !.pendingWrite = Del(@, chatId)]
    IN  Reply(Drop([w EXCEPT !.movies[p.key].episodes = Append(@, p.doc)], chatId),
              chatId, "episode_added")

----------------------------------------------------------------------------
(* Broadcast controller.  A job is one invocation of startBroadcast: its   *)
(* locals count and blocked, the payload, and the cursor over the users    *)
(* that were eligible when the query ran.                                  *)

\* startBroadcast without the check of isActive.
startBroadcast_Unguarded(w, adminId, message) ==
    Reply([w EXCEPT !.broadcastController = [isActive |-> TRUE, shouldStop |-> FALSE],
                    !.jobs = Put(@, adminId, [count |-> 0, blocked |-> 0,
                                              opened |-> FALSE, cursor |-> {},
                                              msg |-> message])],
          adminId, "broadcast_started")

\* startBroadcast that leaves shouldStop as it finds it.
startBroadcast_KeepsStop(w, adminId, message) ==
    IF w.broadcastController.isActive
    THEN Reply(w, adminId, "broadcast_busy")
    ELSE Reply([w EXCEPT !.broadcastController.isActive = TRUE,
                         !.jobs = Put(@, adminId, [count |-> 0, blocked |-> 0,
                                                   opened |-> FALSE, cursor |-> {},
                                                   msg |-> message])],
               adminId, "broadcast_started")

startBroadcast(w, adminId, message) ==
    IF w.broadcastController.isActive
    THEN Reply(w, adminId, "broadcast_busy")
    ELSE Reply([w EXCEPT !.broadcastController = [isActive |-> TRUE, shouldStop |-> FALSE],
                         !.jobs = Put(@, adminId, [count |-> 0, blocked |-> 0,
                                                   opened |-> FALSE, cursor |-> {},
                                                   msg |-> message])],
               adminId, "broadcast_started")

\* User.find({ isBanned: false, isActive: true }).cursor(), at its first next()
openCursor(w, adminId) ==
    [w EXCEPT !.jobs[adminId].opened = TRUE,
              !.jobs[adminId].cursor =
                  {u \in DOMAIN w.users : ~w.users[u].isBanned /\ w.users[u].isActive}]

\* The loop counting every failed relay as an unreachable recipient.
broadcastTurn_CountsAll(w, adminId, user, relay) ==
    IF w.broadcastController.shouldStop
    THEN Reply([w EXCEPT !.broadcastController.isActive = FALSE,
                         !.jobs = Del(@, adminId)],
               adminId, "broadcast_stopped")
    ELSE LET w1 == [w EXCEPT !.jobs[adminId].cursor = @ \ {user}]
         IN  CASE relay = "ok" -> [w1 EXCEPT !.jobs[adminId].count = @ + 1]
               [] OTHER ->
                    [w1 EXCEPT !.jobs[adminId].blocked = @ + 1,
                               !.users[user].isActive = FALSE]

\* The loop without its look at shouldStop.
broadcastTurn_IgnoresStop(w, adminId, user, relay) ==
    LET w1 == [w EXCEPT !.jobs[adminId].cursor = @ \ {user}]
    IN  CASE relay = "ok" -> [w1 EXCEPT !.jobs[adminId].count = @ + 1]
          [] relay = "unreachable" ->
               [w1 EXCEPT !.jobs[adminId].blocked = @ + 1,
                          !.users[user].isActive = FALSE]
          [] OTHER -> w1

\* One turn of the loop for recipient user; relay is what bot.copyMessage
\* does: "ok", "unreachable" (HTTP 403 or 400) or "other";
\* "unreachable_update_fails" is HTTP 403 or 400 followed by a rejected
\* User.updateOne: the exception leaves the catch block and ends the
\* invocation, which is not awaited, before isActive is cleared.
broadcastTurn(w, adminId, user, relay) ==
    IF w.broadcastController.shouldStop
    THEN Reply([w EXCEPT !.broadcastController.isActive = FALSE,
                         !.jobs = Del(@, adminId)],
               adminId, "broadcast_stopped")
    ELSE LET w1 == [w EXCEPT !.jobs[adminId].cursor = @ \ {user}]
         IN  CASE relay = "ok" -> [w1 EXCEPT !.jobs[adminId].count = @ + 1]
               [] relay = "unreachable" ->
                    [w1 EXCEPT !.jobs[adminId].blocked = @ + 1,
                               !.users[user].isActive = FALSE]
               [] relay = "unreachable_update_fails" ->
                    [w EXCEPT !.jobs = Del(@, adminId)]
               [] OTHER -> w1

\* The end of the loop that leaves the controller active.
broadcastEnd_StaysActive(w, adminId) ==
    Reply([w EXCEPT !.jobs = Del(@, adminId)], adminId, "broadcast_done")

\* The cursor is exhausted.
broadcastEnd(w, adminId) ==
    Reply([w EXCEPT !.broadcastController.isActive = FALSE,
                    !.jobs = Del(@, adminId)],
          adminId, "broadcast_done")

----------------------------------------------------------------------------
(* bot.on('callback_query').  data is [cmd, k, n]: the command, and the    *)
(* name and the number its callback_data carries (perm_<k>_<n>,            *)
(* ed_f_<k>_<n>, add_ep_<n>, usr_<k>_<n>, del_admin_<n>, ed_del_<n>).      *)

Data(cmd, k, n) == [cmd |-> cmd, k |-> k, n |-> n]

\* cancel_action that forgets every session.
cancelAction_ClearsAll(w, chatId) ==
    LET w1 == [w EXCEPT !.state = Empty]
    IN  IF isUserAdminVal(w1, chatId)
        THEN showAdminPanel(isUserAdmin(w1, chatId), chatId)
        ELSE Reply(isUserAdmin(w1, chatId), chatId, "cancelled")

cancelAction(w, chatId) ==
    LET w1 == Drop(w, chatId)
    IN  IF isUserAdminVal(w1, chatId)
        THEN showAdminPanel(isUserAdmin(w1, chatId), chatId)
        ELSE Reply(isUserAdmin(w1, chatId), chatId, "cancelled")

\* check_sub that does not look for a pending code.
checkSub_ForgetsPending(w, chatId, memb) ==
    LET w1 == checkSubscription(w, chatId, memb)
    IN  IF checkSubscriptionVal(w, chatId, memb) = {}
        THEN Reply(w1, chatId, "sub_confirmed")
        ELSE Reply(w1, chatId, "sub_missing")

checkSub(w, chatId, memb) ==
    LET w1 == checkSubscription(w, chatId, memb)
    IN  IF checkSubscriptionVal(w, chatId, memb) = {}
        THEN IF Has(w1.state, chatId) /\ w1.state[chatId].pendingCode # "undefined"
             THEN showMovieCard(w1, chatId, w1.state[chatId].pendingCode)
             ELSE Reply(w1, chatId, "sub_confirmed")
        ELSE Reply(w1, chatId, "sub_missing")

\* adult_yes / adult_no that stamp the session with the time of the answer.
adultAnswer_Touches(w, chatId, data) ==
    IF Has(w.state, chatId) /\ w.state[chatId].action = "ADD_CONTENT"
    THEN IF w.state[chatId].data = Empty
         THEN Reply(w, chatId, "callback_error")
         ELSE Reply([w EXCEPT !.state[chatId].data =
                                  Put(@, "isAdult", data.cmd = "adult_yes"),
                              !.state[chatId].step = "CODE",
                              !.state[chatId].timestamp = w.now],
                    chatId, "ask_code")
    ELSE w

adultAnswer(w, chatId, data) ==
    IF Has(w.state, chatId) /\ w.state[chatId].action = "ADD_CONTENT"
    THEN IF w.state[chatId].data = Empty
         THEN Reply(w, chatId, "callback_error")   \* st.data is undefined: TypeError
         ELSE Reply([w EXCEPT !.state[chatId].data =
                                  Put(@, "isAdult", data.cmd = "adult_yes"),
                              !.state[chatId].step = "CODE"],
                    chatId, "ask_code")
    ELSE w

\* confirm_broadcast that does not ask for a payload.
confirmBroadcast_AnySession(w, chatId) ==
    IF Has(w.state, chatId)
    THEN [Drop(w, chatId) EXCEPT !.pendingConfirm = Put(@, chatId, w.state[chatId].msg)]
    ELSE w

\* confirm_broadcast up to its await: the session is deleted and the
\* handler holds the payload.
confirmBroadcast(w, chatId) ==
    IF Has(w.state, chatId) /\ w.state[chatId].msg # NoMsg
    THEN [Drop(w, chatId) EXCEPT !.pendingConfirm = Put(@, chatId, w.state[chatId].msg)]
    ELSE w

\* stop_broadcast that raises the flag whether or not a job runs.
stopBroadcast_Always(w, chatId) ==
    Reply([w EXCEPT !.broadcastController.shouldStop = TRUE], chatId, "stopping")

stopBroadcast(w, chatId) ==
    IF w.broadcastController.isActive
    THEN Reply([w EXCEPT !.broadcastController.shouldStop = TRUE], chatId, "stopping")
    ELSE Reply(w, chatId, "nothing_to_stop")

Start(w, chatId, session) == [w EXCEPT !.state = Put(@, chatId, session)]

\* perm_<k>_<uid> that leaves the cache alone.
permToggle_KeepsCache(w, chatId, data) ==
    IF Has(w.admins, data.n)
    THEN Reply([w EXCEPT !.admins[data.n] =
                            IF data.k \in @ THEN @ \ {data.k} ELSE @ \cup {data.k}],
               chatId, "perms_panel")
    ELSE w

\* perm_<k>_<uid>
permToggle(w, chatId, data) ==
    IF Has(w.admins, data.n)
    THEN Reply([w EXCEPT !.admins[data.n] =
                            IF data.k \in @ THEN @ \ {data.k} ELSE @ \cup {data.k},
                         !.adminCache = Del(@, data.n)],
               chatId, "perms_panel")
    ELSE w

adminCallback(w, chatId, data) ==
    LET cmd == data.cmd
        Guarded(perm, w2) == IF hasPermission(w, chatId, perm) THEN w2 ELSE w
    IN  CASE cmd = "admin_home" -> showAdminPanel(w, chatId)
          [] cmd = "admin_add_content_select" ->
               IF hasPermission(w, chatId, "movies")
               THEN Reply(w, chatId, "ask_content_type")
               ELSE Reply(w, chatId, "no_permission_alert")
          [] cmd \in {"start_add_movie", "start_add_series"} ->
               Reply(Start(w, chatId,
                        [NewSession("ADD_CONTENT", "movies", w.now) EXCEPT
                           !.contentType = IF cmd = "start_add_movie" THEN "movie"
                                           ELSE "series",
                           !.step = "VIDEO"]),
                     chatId, "ask_video")
          [] cmd \in {"adult_yes", "adult_no"} -> adultAnswer(w, chatId, data)
          [] cmd = "admin_edit_movie" ->
               Guarded("movies",
                   Reply(Start(w, chatId, NewSession("EDIT_SEARCH", "movies", w.now)),
                         chatId, "ask_edit_code"))
          [] cmd = "ed_f" ->
               Reply(Start(w, chatId,
                        [NewSession("EDIT_FIELD", "movies", w.now) EXCEPT
                           !.field = data.k, !.movieId = data.n]),
                     chatId, "ask_field")
          [] cmd = "add_ep" ->
               Reply(Start(w, chatId,
                        [NewSession("ADD_EPISODE", "movies", w.now) EXCEPT
                           !.movieId = data.n, !.step = "VIDEO"]),
                     chatId, "ask_video")
          [] cmd \in {"add_ch_main", "add_ch_codes"} ->
               Guarded("channels",
                   Reply(Start(w, chatId,
                            [NewSession("ADD_CHANNEL", "channels", w.now) EXCEPT
                               !.step = "NAME",
                               !.type = IF cmd = "add_ch_main" THEN "main"
                                        ELSE "movie_codes"]),
                         chatId, "ask_channel_name"))
          [] cmd = "admin_broadcast" ->
               Guarded("broadcast",
                   Reply(Start(w, chatId, NewSession("BROADCAST", "broadcast", w.now)),
                         chatId, "ask_post"))
          [] cmd = "confirm_broadcast" -> confirmBroadcast(w, chatId)
          [] cmd = "stop_broadcast" -> stopBroadcast(w, chatId)
          [] cmd = "admin_users" ->
               Guarded("users",
                   Reply(Start(w, chatId, NewSession("SEARCH_USER", "users", w.now)),
                         chatId, "ask_user_id"))
          [] cmd = "usr" ->
               IF Has(w.users, data.n)
               THEN Reply([w EXCEPT !.users[data.n].isBanned =
                                       IF data.k = "ban" THEN ~@ ELSE @],
                          chatId, "user_panel")
               ELSE w
          [] cmd = "admin_permission_setup" ->
               Reply(Start(w, chatId, NewSession("MANAGE_ADMIN_ID", "none", w.now)),
                     chatId, "ask_admin_id")
          [] cmd = "perm" -> permToggle(w, chatId, data)
          [] cmd = "del_admin" ->
               showAdminPanel(Reply([w EXCEPT !.admins = Del(@, data.n)], chatId, "deleted"),
                              chatId)
          [] cmd = "ed_del" ->
               showAdminPanel(Reply([w EXCEPT !.movies = Del(@, data.n)], chatId, "deleted"),
                              chatId)
          [] OTHER -> w

\* handleDownloadMovie / handleDownloadEpisode past the limiter.  env is
\* what the settings, the user's restrictions and bot.sendVideo do:
\* "ok", "forbidden" or "send_fails".
deliver(w, userId, found, media, env) ==
    IF ~found THEN Reply(w, userId, "dl_not_found")
    ELSE IF env = "forbidden" THEN Reply(w, userId, "dl_forbidden")
    ELSE IF env = "send_fails" THEN Reply(Reply(w, userId, "sending"), userId, "video_error")
    ELSE Reply(Reply(w, userId, "sending"), userId, media)

handleDownloadMovie(w, userId, data, env) ==
    IF isDownloadFloodingVal(w, userId)
    THEN Reply(isDownloadFlooding(w, userId), userId, "wait")
    ELSE deliver(isDownloadFlooding(w, userId), userId, Has(w.movies, data.n),
                 "video:" \o ToString(data.n), env)

handleDownloadEpisode(w, userId, data, env) ==
    IF isDownloadFloodingVal(w, userId)
    THEN Reply(isDownloadFlooding(w, userId), userId, "wait")
    ELSE deliver(isDownloadFlooding(w, userId), userId,
                 /\ Has(w.movies, data.n) /\ w.movies[data.n].contentType = "series"
                 /\ \E i \in DOMAIN w.movies[data.n].episodes :
                        w.movies[data.n].episodes[i].number = parseInt(data.k),
                 "episode:" \o ToString(data.n) \o ":" \o data.k, env)

\* bot.on('callback_query') for dl_<code> and s_dl_<code>_<number>: the
\* download, then the admin gate, behind which no branch matches.
onDownload(w0, chatId, data, env) ==
    LET w == Begin(w0, data.cmd, chatId, data)
    IN  isUserAdmin(IF data.cmd = "dl"
                    THEN handleDownloadMovie(w, chatId, data, env)
                    ELSE handleDownloadEpisode(w, chatId, data, env),
                    chatId)

onCallback(w0, chatId, data, memb) ==
    LET w == Begin(w0, data.cmd, chatId, data)
    IN  IF data.cmd = "cancel_action" THEN cancelAction(w, chatId)
        ELSE IF data.cmd = "check_sub" THEN checkSub(w, chatId, memb)
        ELSE IF ~isUserAdminVal(w, chatId) THEN isUserAdmin(w, chatId)
        ELSE adminCallback(isUserAdmin(w, chatId), chatId, data)

----------------------------------------------------------------------------
(* Actions: one per update, timer or continuation. *)

Statuses == {"member", "left", "kicked", "error"}

\* The clock of a run: short delays add up to at most MaxTicks flood windows;
\* at most MaxJumps idle periods outlast the session TTL.
Elapsed  == (now - StartTime) % (stateTTL + 1)
Jumps    == (now - StartTime) \div (stateTTL + 1)
MayPass(d) == Elapsed + d <= MaxTicks * floodLimit

\* A message of actor a arrives, d milliseconds after the previous event.
Message(a, m, d) ==
    /\ MayPass(d)
    /\ \E memb \in [DOMAIN channels -> Statuses], chat \in {"-1001", "error"} :
           Becomes(onMessage([World EXCEPT !.now = @ + d], a, m, memb, chat))
    /\ lastAccepted' = IF isFloodingVal([World EXCEPT !.now = @ + d], a)
                       THEN lastAccepted
                       ELSE Put(lastAccepted, a, now + d)
    /\ UNCHANGED <<relayLog, lastDownload>>

\* Actor a presses a button.
Callback(a, d) ==
    /\ \E memb \in [DOMAIN channels -> Statuses] :
           Becomes(onCallback(World, a, d, memb))
    /\ UNCHANGED <<lastAccepted, relayLog, lastDownload>>

\* A message of actor a reaches the capability check of handleAdminInput
\* and the store rejects the query of hasPermission.
MessageStoreDown(a, m, d) ==
    /\ MayPass(d)
    /\ LET w == [World EXCEPT !.now = @ + d]
       IN  /\ ~isFloodingVal(w, a)
           /\ Has(users, a) /\ ~users[a].isBanned
           /\ Has(state, a) /\ ~(w.now - state[a].timestamp > stateTTL)
           /\ state[a].action # "ASK_BIRTH_YEAR"
           /\ isUserAdminVal(w, a)
           /\ a # superAdminId /\ state[a].permissionRequired # "none"
           /\ Becomes(onMessageStoreDown(w, a, m))
    /\ lastAccepted' = Put(lastAccepted, a, now + d)
    /\ UNCHANGED <<relayLog, lastDownload>>

\* The clock of a run of downloads: the gaps add up to at most MaxTicks half
\* cooldowns.
MayCool(gap) == Elapsed + gap <= MaxTicks * (downloadCooldown \div 2)

\* Actor a presses a download button, gap milliseconds after the previous
\* event.
Download(a, d, gap, env) ==
    /\ MayCool(gap)
    /\ Becomes(onDownload([World EXCEPT !.now = @ + gap], a, d, env))
    /\ lastDownload' = IF <<a, "wait">> \in ev'.out THEN lastDownload
                       ELSE Put(lastDownload, a, now')
    /\ UNCHANGED <<lastAccepted, relayLog>>

\* A message of actor a with an unused code reaches the CODE step, which
\* is suspended at Movie.create.
CodeRead(a, m, d) ==
    /\ MayPass(d)
    /\ ~Has(pendingWrite, a)
    /\ LET w == [World EXCEPT !.now = @ + d]
       IN  /\ reachesStep(w, a)
           /\ state[a].action = "ADD_CONTENT" /\ state[a].step = "CODE"
           /\ ~isNaN(m.text) /\ ~Has(movies, parseInt(m.text))
           /\ Becomes(codeStepRead(w, a, m))
    /\ lastAccepted' = Put(lastAccepted, a, now + d)
    /\ UNCHANGED <<relayLog, lastDownload>>

\* The suspended CODE step of a resumes: Movie.create answers.
CodeCreate(a) ==
    /\ Has(pendingWrite, a) /\ pendingWrite[a].at = "create"
    /\ Becomes(codeStepCreate(World, a))
    /\ UNCHANGED <<lastAccepted, relayLog, lastDownload>>

\* A message of actor a reaches the NAME step of ADD_EPISODE, which is
\* suspended at movie.save().
EpisodeRead(a, m, d) ==
    /\ MayPass(d)
    /\ ~Has(pendingWrite, a)
    /\ LET w == [World EXCEPT !.now = @ + d]
       IN  /\ reachesStep(w, a)
           /\ state[a].action = "ADD_EPISODE" /\ state[a].step = "NAME"
           /\ Has(movies, state[a].movieId)
           /\ Becomes(episodeRead(w, a, m))
    /\ lastAccepted' = Put(lastAccepted, a, now + d)
    /\ UNCHANGED <<relayLog, lastDownload>>

\* The suspended NAME step of a resumes: movie.save() answers.
EpisodeSave(a) ==
    /\ Has(pendingWrite, a) /\ pendingWrite[a].at = "save"
    /\ Has(movies, pendingWrite[a].key)
    /\ Becomes(episodeSave(World, a))
    /\ UNCHANGED <<lastAccepted, relayLog, lastDownload>>

NoRelays == [eligible |-> {}, outcome |-> Empty]

\* What startBroadcast finds in the controller when it is entered.
Found(controller) == [kind |-> "controller", shouldStop |-> controller.shouldStop]

\* The confirm_broadcast handler of a resumes after safeDelete.
StartBroadcast(a) ==
    /\ Has(pendingConfirm, a)
    /\ Becomes(startBroadcast(
           [Begin(World, "start_broadcast", a, Found(broadcastController))
               EXCEPT !.pendingConfirm = Del(@, a)],
           a, pendingConfirm[a]))
    /\ relayLog' = IF jobs' = jobs THEN relayLog ELSE NoRelays
    /\ UNCHANGED <<lastAccepted, lastDownload>>

BroadcastOpen(a) ==
    /\ Has(jobs, a) /\ ~jobs[a].opened
    /\ Becomes(openCursor(Begin(World, "broadcast_loop", a, NoInput), a))
    /\ relayLog' = [relayLog EXCEPT !.eligible = jobs'[a].cursor]
    /\ UNCHANGED <<lastAccepted, lastDownload>>

\* One turn of a's loop; the transport answers the relay in one of Relays.
TurnOf(a, Relays) ==
    /\ Has(jobs, a) /\ jobs[a].opened
    /\ \E u \in jobs[a].cursor, relay \in Relays :
           /\ Becomes(broadcastTurn(Begin(World, "broadcast_loop", a, NoInput), a, u, relay))
           /\ relayLog' = IF broadcastController.shouldStop THEN relayLog
                           ELSE [relayLog EXCEPT !.outcome = Put(@, u, relay)]
    /\ UNCHANGED <<lastAccepted, lastDownload>>

BroadcastTurn(a) == TurnOf(a, {"ok", "unreachable", "other"})

BroadcastEnd(a) ==
    /\ Has(jobs, a) /\ jobs[a].opened /\ jobs[a].cursor = {}
    /\ Becomes(broadcastEnd(Begin(World, "broadcast_loop", a, NoInput), a))
    /\ UNCHANGED <<lastAccepted, relayLog, lastDownload>>

\* The 60-second timer fires.
Sweep ==
    /\ Becomes(Cleanup(Begin(World, "cleanup", 0, NoInput)))
    /\ UNCHANGED <<lastAccepted, relayLog, lastDownload>>

\* Nothing happens for longer than the session TTL.
Jump ==
    /\ Jumps < MaxJumps
    /\ Becomes([Begin(World, "time", 0, NoInput) EXCEPT !.now = @ + stateTTL + 1])
    /\ UNCHANGED <<lastAccepted, relayLog, lastDownload>>

\* One flood window passes without an update.
Wait ==
    /\ MayPass(floodLimit)
    /\ Becomes([Begin(World, "time", 0, NoInput) EXCEPT !.now = @ + floodLimit])
    /\ UNCHANGED <<lastAccepted, relayLog, lastDownload>>

\* Nothing happens for one flood window less than an idle period: a
\* session created a flood window ago is then one millisecond from the end
\* of its TTL.
Idle ==
    /\ Jumps < MaxJumps /\ Elapsed >= floodLimit
    /\ Becomes([Begin(World, "time", 0, NoInput) EXCEPT
                   !.now = @ + stateTTL + 1 - floodLimit])
    /\ UNCHANGED <<lastAccepted, relayLog, lastDownload>>

Text(t)  == [kind |-> "text", text |-> t, file |-> ""]
Photo    == [kind |-> "photo", text |-> "", file |-> "p1"]
Video    == [kind |-> "video", text |-> "", file |-> "v1"]

Button(c) == Data(c, "", 0)

Registered == [isBanned |-> FALSE, isActive |-> TRUE, birthYear |-> 2004]

\* The process has just started; the store holds the registered users and
\* the admin records given.
Boot(adminRecords) ==
    /\ now = StartTime
    /\ floodMap = Empty
    /\ downloadLimitMap = Empty
    /\ state = Empty
    /\ adminCache = Empty
    /\ broadcastController = [isActive |-> FALSE, shouldStop |-> FALSE]
    /\ users = [a \in Actors |-> Registered]
    /\ movies = Empty
    /\ admins = adminRecords
    /\ channels = Empty
    /\ jobs = Empty
    /\ pendingConfirm = Empty
    /\ pendingWrite = Empty
    /\ ev = [op |-> "init", actor |-> 0, in |-> NoInput, out |-> {}, seen |-> Empty]
    /\ lastAccepted = Empty
    /\ relayLog = NoRelays
    /\ lastDownload = Empty

----------------------------------------------------------------------------
(* Specification Spec: the content wizard.  Every chat is a registered     *)
(* user who has given a birth year; chat 2 holds an admin record with the  *)
(* default capabilities.  Chat 2 writes messages, each right after the     *)
(* previous event or one flood window later, and presses buttons.          *)

Msgs == {Text("a<b"), Photo, Video} \cup {Text(ToString(c)) : c \in Codes}

WizardButtons ==
    {Button(c) : c \in {"cancel_action", "start_add_movie", "start_add_series",
                        "adult_yes"}}

Init == Boot([a \in {2} |-> DefaultPermissions])

Next ==
    \/ \E m \in Msgs, d \in {0, floodLimit} : Message(2, m, d)
    \/ \E d \in WizardButtons : Callback(2, d)

Spec == Init /\ [][Next]_vars

(* Specification SpecPermission: the content wizard while the              *)
(* super-operator grants and withdraws chat 2's capability "movies".       *)

PermissionButtons == {Button(c) : c \in {"start_add_movie", "adult_yes"}}

ShortMsgs == {Video} \cup {Text(ToString(c)) : c \in Codes}

InitPermission == Boot([a \in {2} |-> DefaultPermissions])

NextPermission ==
    \/ \E m \in ShortMsgs \cup {Photo}, d \in {0, floodLimit} : Message(2, m, d)
    \/ \E d \in PermissionButtons : Callback(2, d)
    \/ Callback(superAdminId, Data("perm", "movies", 2))

SpecPermission == InitPermission /\ [][NextPermission]_vars

(* Specification SpecExpiry: sessions that outlive their TTL.  Chat 2      *)
(* starts the content wizard and answers it; idle periods longer than the  *)
(* TTL pass; the sweep runs at any time; the super-operator bans and       *)
(* unbans chat 2.                                                          *)

InitExpiry == Boot([a \in {2} |-> DefaultPermissions])

NextExpiry ==
    \/ \E m \in ShortMsgs, d \in {0, floodLimit} : Message(2, m, d)
    \/ \E d \in PermissionButtons : Callback(2, d)
    \/ Callback(superAdminId, Data("usr", "ban", 2))
    \/ Sweep
    \/ Jump

SpecExpiry == InitExpiry /\ [][NextExpiry]_vars

(* Specification SpecFlood: the flood gate.  Chat 2 writes messages right  *)
(* after the previous event, half a flood window later or a whole one      *)
(* later; flood windows pass in silence; the sweep runs at any time.       *)

InitFlood == Boot([a \in {2} |-> DefaultPermissions])

NextFlood ==
    \/ \E m \in ShortMsgs, d \in {0, floodLimit \div 2, floodLimit} : Message(2, m, d)
    \/ Callback(2, Button("start_add_movie"))
    \/ Wait
    \/ Sweep

SpecFlood == InitFlood /\ [][NextFlood]_vars

(* Specification SpecBroadcast: the super-operator and chat 2, who holds   *)
(* the capability "broadcast", each prepare a post and confirm it; the     *)
(* jobs run turn by turn and can be stopped; sessions are cancelled.       *)

Broadcasters == {superAdminId, 2}

BroadcastButtons ==
    {Button(c) : c \in {"admin_broadcast", "confirm_broadcast", "cancel_action"}}

InitBroadcast == Boot([a \in {2} |-> {"broadcast"}])

NextBroadcast ==
    \/ \E a \in Broadcasters : Message(a, Text("a<b"), 0)
    \/ \E a \in Broadcasters, d \in BroadcastButtons : Callback(a, d)
    \/ Callback(superAdminId, Button("stop_broadcast"))
    \/ \E a \in Broadcasters : StartBroadcast(a)
    \/ \E a \in Broadcasters : BroadcastOpen(a)
    \/ \E a \in Broadcasters : BroadcastTurn(a)
    \/ \E a \in Broadcasters : BroadcastEnd(a)

SpecBroadcast == InitBroadcast /\ [][NextBroadcast]_vars

\* The loop of a started job is scheduled again and again: every await of
\* startBroadcast resolves.
SpecBroadcastFair ==
    /\ SpecBroadcast
    /\ WF_vars(\E a \in Broadcasters : BroadcastOpen(a))
    /\ WF_vars(\E a \in Broadcasters : BroadcastTurn(a))
    /\ WF_vars(\E a \in Broadcasters : BroadcastEnd(a))

(* Specification SpecRelay: one job of the super-operator, in which the    *)
(* store may also reject the update that marks a recipient inactive.       *)

RelayButtons ==
    {Button(c) : c \in {"admin_broadcast", "confirm_broadcast", "stop_broadcast"}}

BroadcastTurnStoreDown(a) ==
    TurnOf(a, {"ok", "unreachable", "unreachable_update_fails", "other"})

InitRelay == Boot(Empty)

NextRelay ==
    \/ Message(superAdminId, Text("a<b"), 0)
    \/ \E d \in RelayButtons : Callback(superAdminId, d)
    \/ StartBroadcast(superAdminId)
    \/ BroadcastOpen(superAdminId)
    \/ BroadcastTurnStoreDown(superAdminId)
    \/ BroadcastEnd(superAdminId)

SpecRelay == InitRelay /\ [][NextRelay]_vars

(* Specification SpecCache: the admin cache.  The super-operator removes  *)
(* chat 2's admin record, creates it again and toggles a capability; chat  *)
(* 2 opens the admin panel; idle periods longer than every TTL pass; the   *)
(* sweep runs at any time.                                                 *)

SuperCacheButtons ==
    {Data("del_admin", "", 2), Data("perm", "movies", 2), Button("admin_permission_setup")}

InitCache == Boot([a \in {2} |-> DefaultPermissions])

NextCache ==
    \/ Callback(2, Button("admin_home"))
    \/ \E d \in SuperCacheButtons : Callback(superAdminId, d)
    \/ \E d \in {0, floodLimit} : Message(superAdminId, Text("2"), d)
    \/ Sweep
    \/ Jump

SpecCache == InitCache /\ [][NextCache]_vars

(* Specification SpecAdmins: the super-operator manages admin records: it *)
(* opens ManageAdminId and submits its own identity, chat 2's or text that *)
(* is no number; it toggles a capability of chat 2 and deletes the record. *)

AdminsButtons ==
    {Button("admin_permission_setup"), Data("perm", "movies", 2), Data("del_admin", "", 2)}

AdminsMsgs == {Text("1"), Text("2"), Text("a<b")}

InitAdmins == Boot(Empty)

NextAdmins ==
    \/ \E m \in AdminsMsgs, d \in {0, floodLimit} : Message(superAdminId, m, d)
    \/ \E d \in AdminsButtons : Callback(superAdminId, d)

SpecAdmins == InitAdmins /\ [][NextAdmins]_vars

(* Specification SpecGate: the subscription gate.  One channel is         *)
(* required and one movie is stored.  Chat 3, who is no admin and has not  *)
(* yet given a birth year, writes a year, a code and a deep link, and      *)
(* presses the check button; the transport reports any membership.         *)

\* The process has just started with the given collections.
BootStore(adminRecords, userRecords, movieRecords, channelRecords) ==
    /\ now = StartTime
    /\ floodMap = Empty
    /\ downloadLimitMap = Empty
    /\ state = Empty
    /\ adminCache = Empty
    /\ broadcastController = [isActive |-> FALSE, shouldStop |-> FALSE]
    /\ users = userRecords
    /\ movies = movieRecords
    /\ admins = adminRecords
    /\ channels = channelRecords
    /\ jobs = Empty
    /\ pendingConfirm = Empty
    /\ pendingWrite = Empty
    /\ ev = [op |-> "init", actor |-> 0, in |-> NoInput, out |-> {}, seen |-> Empty]
    /\ lastAccepted = Empty
    /\ relayLog = NoRelays
    /\ lastDownload = Empty

StoredMovie ==
    [contentType |-> "movie",
     fields |-> [f \in {"fileId", "posterId", "title", "country", "language", "isAdult"} |->
                    IF f = "isAdult" THEN FALSE ELSE "x"],
     episodes |-> << >>,
     addedBy |-> superAdminId]

StoredChannel == [name |-> "x", url |-> "-1001", type |-> "main"]

GateMsgs == {Text("2004"), Text("1"), Text("/start 1")}

InitGate ==
    BootStore(Empty,
              [a \in Actors |-> IF a = 3 THEN NewUser ELSE Registered],
              [c \in {1} |-> StoredMovie],
              [c \in {"-1001"} |-> StoredChannel])

NextGate ==
    \/ \E m \in GateMsgs, d \in {0, floodLimit} : Message(3, m, d)
    \/ Callback(3, Button("check_sub"))

SpecGate == InitGate /\ [][NextGate]_vars

(* Specification SpecPending: a request waits for the subscription.  One  *)
(* channel is required and two movies are stored.  Chat 3, who is no admin *)
(* and has not yet given a birth year, writes a year, a code and a deep    *)
(* link with another code, and presses the check button.                   *)

PendingMsgs == {Text("2004"), Text("1"), Text("/start 2")}

InitPending ==
    BootStore(Empty,
              [a \in Actors |-> IF a = 3 THEN NewUser ELSE Registered],
              [c \in {1, 2} |-> StoredMovie],
              [c \in {"-1001"} |-> StoredChannel])

NextPending ==
    \/ \E m \in PendingMsgs, d \in {0, floodLimit} : Message(3, m, d)
    \/ Callback(3, Button("check_sub"))

SpecPending == InitPending /\ [][NextPending]_vars

(* Specification SpecChannel: the super-operator registers channels.  One *)
(* channel is stored.  The super-operator opens AddChannel for either type *)
(* and answers it, one flood window after the previous event, with a name, *)
(* a link and numeric identifiers; the transport resolves the link to the  *)
(* stored channel or fails.                                                *)

ChannelButtons == {Button("add_ch_main"), Button("add_ch_codes")}

ChannelMsgs == {Text("a<b"), Text("https://t.me/testchan"), Text("-1001"), Text("-1002")}

InitChannel ==
    BootStore(Empty, [a \in Actors |-> Registered], Empty,
              [c \in {"-1001"} |-> StoredChannel])

NextChannel ==
    \/ \E m \in ChannelMsgs : Message(superAdminId, m, floodLimit)
    \/ \E d \in ChannelButtons : Callback(superAdminId, d)

SpecChannel == InitChannel /\ [][NextChannel]_vars

(* Specification SpecFailure: failures inside the handlers.  Chat 2 runs   *)
(* the content wizard; the store may reject the query of the capability    *)
(* check; the adult button pressed before a draft exists throws.           *)

InitFailure == Boot([a \in {2} |-> DefaultPermissions])

NextFailure ==
    \/ \E m \in ShortMsgs, d \in {0, floodLimit} : Message(2, m, d)
    \/ \E m \in ShortMsgs, d \in {0, floodLimit} : MessageStoreDown(2, m, d)
    \/ \E d \in PermissionButtons : Callback(2, d)

SpecFailure == InitFailure /\ [][NextFailure]_vars

(* Specification SpecDownload: the download limiter.  A movie and a series *)
(* are stored.  Chat 3 presses the download button of the movie and of the *)
(* series' episode, right after the previous event, half a cooldown later  *)
(* or a whole one later, and writes messages; the sweep runs at any time.  *)

StoredSeries ==
    [contentType |-> "series",
     fields |-> [f \in {"posterId", "title", "country", "language", "isAdult"} |->
                    IF f = "isAdult" THEN FALSE ELSE "x"],
     episodes |-> << [number |-> 1, fileId |-> "v1", name |-> "1-qism"] >>,
     addedBy |-> superAdminId]

DownloadButtons == {Data("dl", "", 1), Data("s_dl", "1", 2)}

InitDownload ==
    BootStore(Empty, [a \in Actors |-> Registered],
              [c \in {1, 2} |-> IF c = 1 THEN StoredMovie ELSE StoredSeries],
              Empty)

NextDownload ==
    \/ \E d \in DownloadButtons, gap \in {0, downloadCooldown \div 2, downloadCooldown},
          env \in {"ok", "forbidden", "send_fails"} : Download(3, d, gap, env)
    \/ \E d \in {0, floodLimit} : Message(3, Text("1"), d)
    \/ Sweep

SpecDownload == InitDownload /\ [][NextDownload]_vars

(* Specification SpecRace: two operators add content at the same time.    *)
(* The super-operator and chat 2 each start the wizard, send a video,      *)
(* answer the adult question and send a code, each message one flood       *)
(* window after the previous event; a CODE step may run as a whole or be   *)
(* overtaken between its lookup and its Movie.create.                      *)

Operators == {superAdminId, 2}

RaceMsgs == {Video} \cup {Text(ToString(c)) : c \in Codes}

InitRace == Boot([a \in {2} |-> DefaultPermissions])

NextRace ==
    \/ \E a \in Operators, m \in RaceMsgs : Message(a, m, floodLimit)
    \/ \E a \in Operators, d \in PermissionButtons : Callback(a, d)
    \/ \E a \in Operators, c \in Codes : CodeRead(a, Text(ToString(c)), floodLimit)
    \/ \E a \in Operators : CodeCreate(a)

SpecRace == InitRace /\ [][NextRace]_vars

(* Specification SpecEpisode: two operators add episodes to one series.   *)
(* A series with one episode is stored.  The super-operator and chat 2     *)
(* each open AddEpisode for it, send a video and a name, each message one  *)
(* flood window after the previous event; a NAME step may run as a whole   *)
(* or be overtaken between its read and its movie.save().                  *)

EpisodeMsgs == {Video, Text("a<b")}

InitEpisode ==
    BootStore([a \in {2} |-> DefaultPermissions], [a \in Actors |-> Registered],
              [c \in {2} |-> StoredSeries], Empty)

NextEpisode ==
    \/ \E a \in Operators, m \in EpisodeMsgs : Message(a, m, floodLimit)
    \/ \E a \in Operators : Callback(a, Data("add_ep", "", 2))
    \/ \E a \in Operators : EpisodeRead(a, Text("a<b"), floodLimit)
    \/ \E a \in Operators : EpisodeSave(a)

SpecEpisode == InitEpisode /\ [][NextEpisode]_vars

(* Specification SpecSelfGrant: the admin-management actions sent by       *)
(* chats other than the super-operator.  Chat 2 is an admin with the       *)
(* default capabilities, chat 3 is a user; either sends the callback data  *)
(* of the admin-management buttons, which the panel shows to the           *)
(* super-operator only, and numeric identities.                            *)

SelfGrantButtons ==
    {Button("admin_permission_setup"), Data("perm", "admins", 2),
     Data("del_admin", "", 2), Data("del_admin", "", 3)}

SelfGrantMsgs == {Text("2"), Text("3")}

InitSelfGrant == Boot([a \in {2} |-> DefaultPermissions])

NextSelfGrant ==
    \/ \E m \in SelfGrantMsgs : Message(2, m, floodLimit)
    \/ \E a \in {2, 3}, d \in SelfGrantButtons : Callback(a, d)

SpecSelfGrant == InitSelfGrant /\ [][NextSelfGrant]_vars

(* Specification SpecThrottle: both rate limiters and the sweep.  A movie  *)
(* is stored.  Chat 3 writes messages right after the previous event, half *)
(* a flood window later or a whole one later, and presses the download     *)
(* button right after the previous event, half a cooldown later or a whole *)
(* one later; the sweep runs at any time; an idle period longer than every *)
(* window passes.                                                          *)

InitThrottle ==
    BootStore(Empty, [a \in Actors |-> Registered], [c \in {1} |-> StoredMovie], Empty)

NextThrottle ==
    \/ \E d \in {0, floodLimit \div 2, floodLimit} : Message(3, Text("1"), d)
    \/ \E gap \in {0, downloadCooldown \div 2, downloadCooldown} :
          Download(3, Data("dl", "", 1), gap, "ok")
    \/ Sweep
    \/ Jump

SpecThrottle == InitThrottle /\ [][NextThrottle]_vars

(* Specification SpecSession: the age of a session.  Chat 2 runs the       *)
(* content wizard, each message right after the previous event or one      *)
(* flood window later, and answers the adult question; the chat falls      *)
(* silent for just under the session TTL.                                  *)

SessionMsgs == {Video, Photo, Text("a<b")}

InitSession == Boot([a \in {2} |-> DefaultPermissions])

NextSession ==
    \/ \E m \in SessionMsgs, d \in {0, floodLimit} : Message(2, m, d)
    \/ \E d \in PermissionButtons : Callback(2, d)
    \/ Idle

SpecSession == InitSession /\ [][NextSession]_vars

(* Specification SpecSubscription: two channels are required.  Chat 2, an  *)
(* admin, and chat 3, who is none, write a content code, one flood window  *)
(* after the previous event, and press the check button; the transport     *)
(* reports any membership for either channel or fails.                     *)

InitSubscription ==
    BootStore([a \in {2} |-> DefaultPermissions],
              [a \in Actors |-> Registered],
              [c \in {1} |-> StoredMovie],
              [c \in {"-1001", "-1002"} |-> StoredChannel])

NextSubscription ==
    \/ \E a \in {2, 3} : Message(a, Text("1"), floodLimit)
    \/ \E a \in {2, 3} : Callback(a, Button("check_sub"))

SpecSubscription == InitSubscription /\ [][NextSubscription]_vars

----------------------------------------------------------------------------
(* What a step is, read off the two states of the step. *)

\* The world in which the update of this step was handled.
Arrival == [World EXCEPT !.now = now']

\* This step handled a message of a that reached handleAdminInput.
ReachesWizard(a) ==
    /\ ev'.op = "message" /\ ev'.actor = a
    /\ ~isFloodingVal(Arrival, a)
    /\ Has(users, a) /\ ~users[a].isBanned
    /\ Has(state, a)
    /\ ~(now' - state[a].timestamp > stateTTL)
    /\ state[a].action # "ASK_BIRTH_YEAR"
    /\ isUserAdminVal(Arrival, a)

\* ... and passed its capability check.
ReachesStep(a) ==
    /\ ReachesWizard(a)
    /\ \/ state[a].permissionRequired = "none"
       \/ hasPermission(World, a, state[a].permissionRequired)

StoreUnchanged ==
    /\ movies' = movies /\ channels' = channels /\ admins' = admins

\* The only change of the User collection is the upsert of the sender.
OnlyUpsert(a) ==
    /\ DOMAIN users' = DOMAIN users \cup {a}
    /\ \A u \in DOMAIN users :
          users'[u] = IF u = a THEN [users[u] EXCEPT !.isActive = TRUE] ELSE users[u]

----------------------------------------------------------------------------
\* This step handled a message of a that passed the flood gate.
Accepted(a) ==
    /\ ev'.op = "message" /\ ev'.actor = a
    /\ ~isFloodingVal(Arrival, a)

Stale(a) == Has(state, a) /\ now' - state[a].timestamp > stateTTL

(* C1: at most one broadcast job exists at any time, and a startBroadcast  *)
(* call made while the controller is active is answered with the busy      *)
(* notice and leaves the running job, its counters, the controller's flags *)
(* and every user record as they were.                                     *)
C1_OneBroadcast ==
    [][/\ Cardinality(DOMAIN jobs') <= 1
       /\ broadcastController'.isActive <=> jobs' # Empty
       /\ \A a \in Actors :
             ev'.op = "start_broadcast" /\ ev'.actor = a /\ broadcastController.isActive
             => /\ ev'.out = {<<a, "broadcast_busy">>}
                /\ jobs' = jobs
                /\ broadcastController' = broadcastController
                /\ users' = users]_vars

C1_Witness ==
    /\ ev.op = "start_broadcast" /\ ev.out = {<<ev.actor, "broadcast_busy">>}
    /\ \E b \in DOMAIN jobs : b # ev.actor /\ jobs[b].count + jobs[b].blocked > 0
    /\ \E u \in DOMAIN users : ~users[u].isActive

(* C2: an interaction of an actor whose session is older than the TTL      *)
(* never changes that session's step or draft and never completes its      *)
(* flow: the session stays as it was or is gone, no record is created, no  *)
(* broadcast payload is taken and no pending code is resumed.              *)
C2_StaleNeverAdvanced ==
    [][\A a \in Actors :
          Stale(a) /\ ev'.actor = a /\ ev'.op \notin {"time", "cleanup"}
          => /\ Has(state', a) /\ state'[a].timestamp = state[a].timestamp
                 => state'[a] = state[a]
             /\ StoreUnchanged
             /\ pendingConfirm' = pendingConfirm
             /\ \A c \in Codes : <<a, "card:" \o ToString(c)>> \notin ev'.out]_vars

(* C3: the first message of an actor that passes the flood gate after the  *)
(* actor's session outlived its TTL is answered with the expiry notice     *)
(* alone and leaves the actor without a session and everything else as it  *)
(* was, provided the session is still in the table and the actor is not    *)
(* banned.                                                                 *)
C3_ExpiredNotice ==
    [][\A a \in Actors :
          Accepted(a) /\ Stale(a) /\ ~users[a].isBanned
          => /\ ev'.out = {<<a, "session_expired">>}
             /\ state' = Del(state, a)
             /\ StoreUnchanged /\ OnlyUpsert(a)
             /\ pendingConfirm' = pendingConfirm /\ jobs' = jobs]_vars

C3_Witness ==
    /\ ev.op = "message" /\ ev.actor = 2 /\ ev.out = {<<2, "session_expired">>}
    /\ ~Has(state, 2)
    /\ Jumps > 0

(* C3 as stated: the expiry notice is the answer whether or not the sweep  *)
(* ran between the expiry and the message.                                 *)
C3_SweepOrNot ==
    [][\A a \in Actors :
          Accepted(a) /\ (Stale(a) \/ (ev.op = "cleanup" /\ <<a, "session_evicted">> \in ev.out))
          => /\ ev'.out = {<<a, "session_expired">>}
             /\ ~Has(state', a)]_vars

(* C4: two messages of an actor that the flood gate lets through are at    *)
(* least floodLimit apart, and a message that arrives less than floodLimit *)
(* after the last one let through gets no reply and changes neither the    *)
(* sessions nor the store.                                                 *)
C4_FloodGate ==
    [][\A a \in Actors :
          ev'.op = "message" /\ ev'.actor = a /\ Has(lastAccepted, a)
          => IF now' - lastAccepted[a] < floodLimit
             THEN /\ lastAccepted' = lastAccepted
                  /\ ev'.out = {}
                  /\ state' = state /\ users' = users /\ StoreUnchanged
                  /\ adminCache' = adminCache
             ELSE lastAccepted'[a] = now']_vars

C4_Witness ==
    /\ ev.op = "message" /\ ev.actor = 2 /\ ev.in = Video /\ ev.out = {}
    /\ Has(lastAccepted, 2) /\ now - lastAccepted[2] = floodLimit \div 2
    /\ Has(state, 2) /\ state[2].step = "VIDEO"

(* C5: every content record, and every AddContent session at step Code,    *)
(* carries a video, a poster, a title, a country, a language and an adult  *)
(* flag: no step of the wizard can be skipped.                             *)
DraftFields == {"posterId", "title", "country", "language", "isAdult"}

C5_NoStepSkipped ==
    /\ \A c \in DOMAIN movies :
          /\ DraftFields \subseteq DOMAIN movies[c].fields
          /\ "fileId" \in DOMAIN movies[c].fields \/ movies[c].episodes # << >>
    /\ \A a \in DOMAIN state :
          state[a].action = "ADD_CONTENT" /\ state[a].step = "CODE"
              => DraftFields \cup {"fileId"} \subseteq DOMAIN state[a].data

(* C6: at the Code step an unused numeric code creates exactly one record  *)
(* with that code and the draft's fields and deletes the session; a used   *)
(* code creates and changes no record and leaves the session as it was.    *)
C6_CodeStep ==
    [][\A a \in Actors :
          ReachesStep(a) /\ state[a].action = "ADD_CONTENT" /\ state[a].step = "CODE"
                         /\ ~isNaN(ev'.in.text)
          => LET code == parseInt(ev'.in.text)
                 st == state[a]
             IN  IF ~Has(movies, code)
                 THEN /\ DOMAIN movies' = DOMAIN movies \cup {code}
                      /\ \A c \in DOMAIN movies : movies'[c] = movies[c]
                      /\ movies'[code].contentType = st.contentType
                      /\ movies'[code].addedBy = a
                      /\ \A f \in DraftFields \cap DOMAIN st.data :
                            movies'[code].fields[f] = st.data[f]
                      /\ IF st.contentType = "series"
                         THEN /\ Len(movies'[code].episodes) = 1
                              /\ movies'[code].episodes[1].fileId = st.data["fileId"]
                         ELSE movies'[code].fields["fileId"] = st.data["fileId"]
                      /\ ~Has(state', a)
                      /\ <<a, "content_added">> \in ev'.out
                 ELSE /\ movies' = movies
                      /\ Has(state', a) /\ state'[a] = st
                      /\ ev'.out = {<<a, "code_taken">>}]_vars

C6_Witness ==
    /\ ev.op = "message" /\ ev.out = {<<2, "code_taken">>}
    /\ Has(state, 2) /\ state[2].step = "CODE"
    /\ Has(movies, parseInt(ev.in.text))

(* C7: an input of another kind than the step expects leaves the session   *)
(* and the store as they were and is answered with a re-prompt.            *)
Expects(st) ==
    CASE st.action = "ADD_CONTENT" /\ st.step = "VIDEO" -> {"video"}
      [] st.action = "ADD_CONTENT" /\ st.step = "POSTER" -> {"photo"}
      [] st.action = "ADD_CONTENT" /\ st.step \in {"TITLE", "COUNTRY", "LANG", "CODE"} -> {"text"}
      [] st.action = "ADD_CONTENT" /\ st.step = "ADULT" -> {}
      [] OTHER -> {"text", "photo", "video"}

C7_MismatchReprompts ==
    [][\A a \in Actors :
          ReachesStep(a) /\ ev'.in.kind \notin Expects(state[a])
          => /\ Has(state', a) /\ state'[a] = state[a]
             /\ StoreUnchanged
             /\ ev'.out # {}]_vars

(* C8: a message that reaches a session whose capability the actor lacks   *)
(* deletes the session and is answered with the denial; nothing else       *)
(* happens (the handler's upsert of the sender's user record apart).       *)
C8_DenialTearsDown ==
    [][\A a \in Actors :
          ReachesWizard(a) /\ state[a].permissionRequired # "none"
                           /\ ~hasPermission(World, a, state[a].permissionRequired)
          => /\ state' = Del(state, a)
             /\ ev'.out = {<<a, "no_permission">>}
             /\ StoreUnchanged
             /\ OnlyUpsert(a)
             /\ jobs' = jobs /\ pendingConfirm' = pendingConfirm
             /\ broadcastController' = broadcastController]_vars

C8_Witness ==
    /\ ev.op = "message" /\ ev.actor = 2 /\ ev.out = {<<2, "no_permission">>}
    /\ ~Has(state, 2) /\ "movies" \notin admins[2]

(* C9: an input that changes a session carrying a permissionRequired, or   *)
(* completes its flow, is accepted only from an actor who holds that       *)
(* capability at that moment, whether it comes as a message or a callback. *)
C9_CapabilityAtEveryInput ==
    [][\A a \in Actors :
          /\ ev'.actor = a
          /\ ev'.op \in {"message", "adult_yes", "adult_no", "confirm_broadcast"}
          /\ Has(state, a) /\ state[a].permissionRequired # "none"
          /\ ~hasPermission(World, a, state[a].permissionRequired)
          => /\ Has(state', a) /\ state'[a].timestamp = state[a].timestamp
                 => state'[a] = state[a]
             /\ StoreUnchanged
             /\ pendingConfirm' = pendingConfirm]_vars

(* C10: cancel_action deletes the session of the actor who pressed it,     *)
(* whatever its action and step and also when there is none, and leaves    *)
(* the other sessions, every record of the store, the running job and the  *)
(* controller's flags as they were.                                        *)
C10_CancelFrame ==
    [][\A a \in Actors :
          ev'.op = "cancel_action" /\ ev'.actor = a
          => /\ state' = Del(state, a)
             /\ users' = users /\ StoreUnchanged
             /\ broadcastController' = broadcastController
             /\ jobs' = jobs /\ pendingConfirm' = pendingConfirm]_vars

C10_Witness ==
    /\ ev.op = "cancel_action" /\ ev.actor = 2
    /\ ~Has(state, 2)
    /\ Has(state, superAdminId) /\ state[superAdminId].msg # NoMsg
    /\ broadcastController.isActive /\ broadcastController.shouldStop

(* C11: whenever a flow completes the actor has no session afterwards,     *)
(* be it a wizard completed by a message or the wait for subscription      *)
(* completed by check_sub showing the pending card.  (A birth year given   *)
(* with a pending code may open the wait for subscription at once.)        *)
DoneTags ==
    {"content_added", "episode_added", "channel_added", "edit_panel", "field_saved",
     "user_panel", "user_not_found", "perms_panel", "year_saved"}

CardShown(a) ==
    \/ <<a, "card_not_found">> \in ev.out
    \/ \E c \in Codes : <<a, "card:" \o ToString(c)>> \in ev.out

C11_CompletionLeavesNoSession ==
    [][\A a \in Actors :
          /\ ev'.op = "message" /\ ev'.actor = a /\ Has(state, a)
                /\ (\E t \in DoneTags : <<a, t>> \in ev'.out)
             => \/ ~Has(state', a)
                \/ state'[a].action = "WAITING_SUB" /\ state'[a].timestamp = now'
          /\ ev'.op = "check_sub" /\ ev'.actor = a /\ Has(state, a)
                /\ state[a].action = "WAITING_SUB" /\ CardShown(a)'
             => ~Has(state', a)]_vars

----------------------------------------------------------------------------
(* The broadcast loop read off the history of relays. *)

Tried      == DOMAIN relayLog.outcome
With(kind) == {u \in Tried : relayLog.outcome[u] = kind}

\* This step ended the job of a.
JobEnds(a) == Has(jobs, a) /\ ~Has(jobs', a)

(* C12: each relay of a job adds one to delivered when it succeeds, one to *)
(* blocked and the recipient's inactive mark when it fails as unreachable, *)
(* and nothing otherwise; so a job that ends by natural completion has     *)
(* tried every eligible recipient, delivered is the number of successful   *)
(* relays and blocked the number of unreachable recipients.                *)
C12_Counts ==
    [][\A a \in Actors :
          /\ Has(jobs, a) /\ Has(jobs', a) /\ relayLog'.outcome # relayLog.outcome
             => LET u == CHOOSE x \in DOMAIN relayLog'.outcome : x \notin Tried
                    r == relayLog'.outcome[u]
                IN  /\ jobs'[a].count = jobs[a].count + (IF r = "ok" THEN 1 ELSE 0)
                    /\ jobs'[a].blocked =
                          jobs[a].blocked + (IF r = "unreachable" THEN 1 ELSE 0)
                    /\ users' = IF r = "unreachable"
                                THEN [users EXCEPT ![u].isActive = FALSE]
                                ELSE users
          /\ JobEnds(a) /\ <<a, "broadcast_done">> \in ev'.out
             => /\ Tried = relayLog.eligible
                /\ jobs[a].count = Cardinality(With("ok"))
                /\ jobs[a].blocked = Cardinality(With("unreachable"))
                /\ users' = users]_vars

C12_Witness ==
    /\ ev.op = "broadcast_loop" /\ <<ev.actor, "broadcast_done">> \in ev.out
    /\ Tried = relayLog.eligible /\ Tried = Actors
    /\ With("ok") # {} /\ With("unreachable") # {} /\ With("other") # {}

(* C13: while shouldStop is set and a job is active no relay begins and no *)
(* counter moves; and delivered + blocked of a job never exceeds the       *)
(* number of recipients it found eligible.                                 *)
C13_StopHalts ==
    [][/\ broadcastController.shouldStop /\ broadcastController.isActive
          => /\ relayLog'.outcome = relayLog.outcome
             /\ \A a \in DOMAIN jobs \cap DOMAIN jobs' :
                   /\ jobs'[a].count = jobs[a].count
                   /\ jobs'[a].blocked = jobs[a].blocked
       /\ \A a \in DOMAIN jobs' :
             jobs'[a].count + jobs'[a].blocked <= Cardinality(relayLog'.eligible)]_vars

C13_Witness ==
    /\ ev.op = "broadcast_loop" /\ <<ev.actor, "broadcast_stopped">> \in ev.out
    /\ Tried # {} /\ Tried # relayLog.eligible
    /\ ~broadcastController.isActive

C15_StopRequest ==
    [][\A a \in Actors :
          ev'.op = "stop_broadcast" /\ ev'.actor = a /\ isUserAdminVal(World, a)
          => /\ jobs' = jobs /\ relayLog' = relayLog
             /\ IF broadcastController.isActive
                THEN /\ broadcastController' =
                           [broadcastController EXCEPT !.shouldStop = TRUE]
                     /\ ev'.out = {<<a, "stopping">>}
                ELSE /\ broadcastController' = broadcastController
                     /\ ev'.out = {<<a, "nothing_to_stop">>}]_vars

C15_Witness ==
    /\ ev.op = "stop_broadcast" /\ ev.out = {<<ev.actor, "nothing_to_stop">>}
    /\ ~broadcastController.isActive /\ broadcastController.shouldStop
    /\ jobs = Empty

(* C16: a job that ends without shouldStop being set has tried every       *)
(* recipient it found eligible, whatever happened for the earlier ones.    *)
C16_FailuresIsolated ==
    [][\A a \in Actors :
          JobEnds(a) /\ ~broadcastController.shouldStop
          => DOMAIN relayLog'.outcome = relayLog'.eligible]_vars

(* C17: a job starts only in the continuation of a confirm_broadcast, and *)
(* confirm_broadcast hands over a payload only from a Broadcast session    *)
(* that captured one; a message, the capture included, never changes the   *)
(* controller, starts a job or relays; confirm_broadcast without a         *)
(* captured payload starts nothing.                                        *)
C17_ConfirmedOnly ==
    [][\A a \in Actors :
          /\ Has(jobs', a) /\ ~Has(jobs, a)
             => /\ ev'.op = "start_broadcast" /\ ev'.actor = a
                /\ Has(pendingConfirm, a) /\ pendingConfirm[a] # NoMsg
                /\ jobs'[a].msg = pendingConfirm[a]
          /\ Has(pendingConfirm', a) /\ ~Has(pendingConfirm, a)
             => /\ ev'.op = "confirm_broadcast" /\ ev'.actor = a
                /\ Has(state, a) /\ state[a].action = "BROADCAST"
                /\ state[a].msg # NoMsg /\ pendingConfirm'[a] = state[a].msg
          /\ ev'.op = "message" /\ ev'.actor = a
             => /\ broadcastController' = broadcastController /\ jobs' = jobs
                /\ pendingConfirm' = pendingConfirm /\ relayLog' = relayLog
          /\ ev'.op = "confirm_broadcast" /\ ev'.actor = a
                /\ ~(Has(state, a) /\ state[a].msg # NoMsg)
             => /\ broadcastController' = broadcastController /\ jobs' = jobs
                /\ pendingConfirm' = pendingConfirm /\ state' = state]_vars

C17_Witness ==
    /\ ev.op = "start_broadcast" /\ <<ev.actor, "broadcast_started">> \in ev.out
    /\ Has(jobs, ev.actor) /\ jobs[ev.actor].msg = Text("a<b")
    /\ ~Has(state, ev.actor)

----------------------------------------------------------------------------
(* The permission cache. *)

Capabilities == Perms \cup {"broadcast", "settings"}

\* The world with a cache entry and an admin record planted for chat a.
Planted(a, isAdmin, perms) ==
    [World EXCEPT !.adminCache = Put(@, a, [isAdmin |-> isAdmin,
                                            expire  |-> now + adminCacheTTL]),
                  !.admins = Put(@, a, perms)]

(* C18: for the super-operator isUserAdmin answers true and hasPermission  *)
(* answers true for every capability in every reachable state, also when   *)
(* the cache says otherwise and the admin table holds no record or a       *)
(* record without capabilities; isUserAdmin leaves the cache as it was.    *)
C18_SuperAlways ==
    \A w \in {World, Planted(superAdminId, FALSE, {}),
              [World EXCEPT !.admins = Del(@, superAdminId)]} :
        /\ isUserAdminVal(w, superAdminId)
        /\ isUserAdmin(w, superAdminId) = w
        /\ \A p \in Capabilities : hasPermission(w, superAdminId, p)

C18_Witness ==
    /\ ev.op = "del_admin" /\ ev.actor = superAdminId
    /\ <<superAdminId, "deleted">> \in ev.out
    /\ ~Has(admins, superAdminId) /\ ~Has(adminCache, superAdminId)
    /\ ~Has(admins, 2)

(* C19: for an actor other than the super-operator isUserAdmin answers     *)
(* from an entry with expire > now and leaves it alone; otherwise it       *)
(* answers whether an admin record exists and caches that with expire =    *)
(* now + adminCacheTTL.  So its answer differs from the admin table only   *)
(* while an unexpired entry written at most adminCacheTTL ago exists.      *)
Fresh(a) == Has(adminCache, a) /\ adminCache[a].expire > now

C19_CachedAnswer ==
    [][\A a \in Actors \ {superAdminId} :
          /\ ev'.op = "admin_home" /\ ev'.actor = a
             => IF Fresh(a)
                THEN /\ adminCache' = adminCache
                     /\ <<a, "admin_panel">> \in ev'.out <=> adminCache[a].isAdmin
                ELSE /\ adminCache' = Put(adminCache, a,
                            [isAdmin |-> Has(admins, a), expire |-> now + adminCacheTTL])
                     /\ <<a, "admin_panel">> \in ev'.out <=> Has(admins, a)
          /\ isUserAdminVal(World, a)' # Has(admins', a)
             => Fresh(a)' /\ adminCache'[a].expire <= now' + adminCacheTTL]_vars

C19_Witness ==
    /\ ev.op = "admin_home" /\ ev.actor = 2
    /\ <<2, "admin_panel">> \notin ev.out
    /\ Has(admins, 2) /\ Fresh(2) /\ ~adminCache[2].isAdmin
    /\ Jumps > 0

(* C20: a perm_ action that changes the capabilities of A removes A's      *)
(* cache entry in the same step, so that isUserAdmin(A) next answers from  *)
(* the admin table.                                                        *)
C20_ToggleInvalidates ==
    [][\A A \in Actors :
          ev'.op = "perm" /\ ev'.in.n = A /\ admins' # admins
          => /\ ~Has(adminCache', A)
             /\ isUserAdminVal(World, A)' = Has(admins', A)
             /\ \A a \in Actors \ {A} :
                   Has(adminCache', a) <=> Has(adminCache, a)]_vars

C20_Witness ==
    /\ ev.op = "perm" /\ ev.in.n = 2 /\ <<superAdminId, "perms_panel">> \in ev.out
    /\ Has(admins, 2) /\ "movies" \notin admins[2]
    /\ ~Has(adminCache, 2)

\* The world with a fresh cache entry planted for chat a.
CachePlanted(a, isAdmin) ==
    [World EXCEPT !.adminCache = Put(@, a, [isAdmin |-> isAdmin,
                                            expire  |-> now + adminCacheTTL])]

\* What the Admin collection of w holds for a and capability p.
Stored(w, a, p) == Has(w.admins, a) /\ p \in w.admins[a]

\* hasPermission equals the stored value, whatever the cache holds.
AnswersFromStore ==
    \A a \in Actors \ {superAdminId}, p \in Perms :
       \A w \in {World, CachePlanted(a, TRUE), CachePlanted(a, FALSE),
                 [CachePlanted(a, TRUE) EXCEPT !.admins = Del(@, a)]} :
          hasPermission(w, a, p) = Stored(w, a, p)

(* C21: for an actor other than the super-operator hasPermission is the   *)
(* value the admin record holds now (false without a record), whatever the *)
(* cache says; the capability check of the wizard denies exactly when the  *)
(* record does not grant the session's capability, and changes no admin    *)
(* record and no other chat's cache entry.                                 *)
C21_StoredValue ==
    /\ []AnswersFromStore
    /\ [][\A a \in Actors \ {superAdminId} :
             ReachesWizard(a) /\ state[a].permissionRequired # "none"
             => /\ <<a, "no_permission">> \in ev'.out
                     <=> ~Stored(World, a, state[a].permissionRequired)
                /\ admins' = admins
                /\ \A b \in Actors \ {a} :
                      /\ Has(adminCache', b) <=> Has(adminCache, b)
                      /\ Has(adminCache, b) => adminCache'[b] = adminCache[b]]_vars

C21_Witness ==
    /\ ev.op = "message" /\ ev.actor = 2 /\ <<2, "no_permission">> \in ev.out
    /\ Has(admins, 2) /\ "movies" \notin admins[2]
    /\ Has(adminCache, 2) /\ adminCache[2].isAdmin /\ adminCache[2].expire > now

(* C22: in ManageAdminId a numeric identity T that is the super-operator   *)
(* creates and changes no admin record and keeps the session; any other T  *)
(* without a record gets exactly one, with movies, channels and users      *)
(* granted and settings, broadcast and admins not; a T with a record       *)
(* leaves the table as it was; in both these cases the session is deleted. *)
C22_ManageAdminId ==
    [][\A a \in Actors :
          ReachesStep(a) /\ state[a].action = "MANAGE_ADMIN_ID" /\ ~isNaN(ev'.in.text)
          => LET T == parseInt(ev'.in.text)
             IN  IF T = superAdminId
                 THEN admins' = admins /\ Has(state', a) /\ state'[a] = state[a]
                 ELSE /\ ~Has(state', a)
                      /\ admins' = IF Has(admins, T) THEN admins
                                   ELSE Put(admins, T, {"movies", "channels", "users"})]_vars

C22_Witness ==
    /\ ev.op = "message" /\ ev.in = Text("2") /\ <<superAdminId, "perms_panel">> \in ev.out
    /\ ~Has(state, superAdminId)
    /\ Has(admins, 2) /\ admins[2] = {"channels", "users"}

----------------------------------------------------------------------------
(* The subscription gate. *)

\* The channels the request sent in this state asks a to join.
Asked(a) == {ch \in DOMAIN channels : <<a, "join:" \o ch>> \in ev.out}

\* The channels the transport reported a to have left or been kicked from.
ReportedMissing == {ch \in DOMAIN ev.seen : ev.seen[ch] \in {"left", "kicked"}}

Blocked(a) == <<a, "sub_request">> \in ev.out \/ <<a, "sub_missing">> \in ev.out

(* C23: an update of an admin is never blocked by the gate and the         *)
(* transport is not asked about the admin's membership; for any other      *)
(* actor the gate blocks exactly when the transport reported some channel  *)
(* as left or kicked, and asks to join exactly those channels: a channel   *)
(* whose query failed is not among them and does not hide the others.      *)
C23_Missing ==
    [][\A a \in Actors :
          ev'.op \in {"message", "check_sub"} /\ ev'.actor = a
          => IF isUserAdminVal(Arrival, a)
             THEN ev'.seen = Empty /\ ~Blocked(a)' /\ Asked(a)' = {}
             ELSE /\ Blocked(a)' <=> ReportedMissing' # {}
                  /\ <<a, "sub_request">> \in ev'.out => Asked(a)' = ReportedMissing'
                  /\ CardShown(a)' => ReportedMissing' = {}]_vars

C23_Witness ==
    /\ ev.op = "message" /\ ev.actor = 3
    /\ ev.seen = [ch \in {"-1001", "-1002"} |-> IF ch = "-1001" THEN "error" ELSE "kicked"]
    /\ Asked(3) = {"-1002"}

\* The code the message of this step asks for: the code a birth-year
\* session kept, the argument of /start, or the text itself.
Requested(a) ==
    IF Has(state, a) /\ state[a].action = "ASK_BIRTH_YEAR"
    THEN state[a].pendingCode
    ELSE IF StartsWithStartSpace(ev'.in.text) THEN StartArg(ev'.in.text)
    ELSE ev'.in.text

(* C24: a message whose code request the gate blocks leaves the actor with *)
(* a WAITING_SUB session that holds the requested code; a check_sub of an  *)
(* actor with such a session that finds no channel missing shows the card  *)
(* of the session's code and nothing else.                                 *)
C24_PendingResumed ==
    [][\A a \in Actors \ {superAdminId} :
          /\ ev'.op = "message" /\ ev'.actor = a /\ <<a, "sub_request">> \in ev'.out
             => /\ Has(state', a) /\ state'[a].action = "WAITING_SUB"
                /\ state'[a].pendingCode = Requested(a)
                /\ IsDigits(Requested(a))
          /\ ev'.op = "check_sub" /\ ev'.actor = a /\ ~Blocked(a)'
                /\ Has(state, a) /\ state[a].action = "WAITING_SUB"
             => ev'.out = {<<a, IF Has(movies, parseInt(state[a].pendingCode))
                               THEN "card:" \o state[a].pendingCode
                               ELSE "card_not_found">>}]_vars

C24_Witness ==
    /\ ev.op = "check_sub" /\ ev.actor = 3 /\ ev.out = {<<3, "card:2">>}
    /\ Has(state, 3) /\ state[3].action = "WAITING_SUB" /\ state[3].pendingCode = "2"
    /\ ev.seen # Empty

----------------------------------------------------------------------------
(* Channel registration. *)

ChannelIds == {"-1001", "-1002"}

(* C25: completing AddChannel with a text that resolves to identifier id    *)
(* writes the session's name, the text and the session's type into the     *)
(* record of id, creating it only when none is stored: the number of       *)
(* records grows by one for a new identifier and not at all for a stored   *)
(* one, and every other record stays as it was.  A numeric identifier      *)
(* resolves to itself.                                                     *)
C25_ChannelUpsert ==
    [][\A a \in Actors :
          ReachesStep(a) /\ state[a].action = "ADD_CHANNEL" /\ state[a].step = "URL"
                         /\ <<a, "channel_added">> \in ev'.out
          => \E id \in ChannelIds :
                /\ <<a, "channel_id:" \o id>> \in ev'.out
                /\ IsChannelId(ev'.in.text) => id = ev'.in.text
                /\ channels' = Put(channels, id, [name |-> state[a].data["name"],
                                                  url  |-> ev'.in.text,
                                                  type |-> state[a].type])
                /\ Cardinality(DOMAIN channels') =
                      Cardinality(DOMAIN channels) + (IF Has(channels, id) THEN 0 ELSE 1)
                /\ ~Has(state', a)]_vars

C25_Witness ==
    /\ ev.op = "message" /\ ev.in = Text("https://t.me/testchan")
    /\ <<superAdminId, "channel_id:-1001">> \in ev.out
    /\ DOMAIN channels = {"-1001"}
    /\ channels["-1001"] = [name |-> "a&lt;b", url |-> "https://t.me/testchan",
                            type |-> "movie_codes"]

----------------------------------------------------------------------------
(* Failures inside the handlers. *)

\* The update handled in this state ran into an exception.
Failed(a) ==
    /\ ev.actor = a
    /\ \/ ev.op = "message_store_down"
       \/ <<a, "system_error">> \in ev.out
       \/ <<a, "callback_error">> \in ev.out

(* C26: when the handling of a wizard input or of a callback of an actor   *)
(* fails, the actor has no session afterwards, wherever the failure        *)
(* occurred.                                                               *)
C26_FailureClearsSession ==
    [][\A a \in Actors : Failed(a)' => ~Has(state', a)]_vars

----------------------------------------------------------------------------
(* The download limiter. *)

Media(a) ==
    {<<a, "video:1">>, <<a, "episode:2:1">>, <<a, "video_error">>, <<a, "sending">>}

(* C27: a download action of an actor less than downloadCooldown after the *)
(* actor's last download that got past the limiter, movie or episode, is   *)
(* answered with the wait notice alone and delivers nothing; so of two     *)
(* download actions less than downloadCooldown apart at most one passes.   *)
(* A download leaves floodMap as it was and a message leaves               *)
(* downloadLimitMap as it was.                                             *)
C27_DownloadLimiter ==
    [][\A a \in Actors :
          /\ ev'.op \in {"dl", "s_dl"} /\ ev'.actor = a
             => /\ floodMap' = floodMap /\ lastAccepted' = lastAccepted
                /\ Has(lastDownload, a) /\ now' - lastDownload[a] < downloadCooldown
                   => /\ ev'.out = {<<a, "wait">>}
                      /\ ev'.out \cap Media(a) = {}
                      /\ lastDownload' = lastDownload
          /\ ev'.op = "message" /\ ev'.actor = a
             => downloadLimitMap' = downloadLimitMap /\ lastDownload' = lastDownload]_vars

C27_Witness ==
    /\ ev.op = "s_dl" /\ ev.actor = 3 /\ ev.out = {<<3, "wait">>}
    /\ Has(lastDownload, 3) /\ now - lastDownload[3] = downloadCooldown \div 2
    /\ Has(lastAccepted, 3) /\ lastAccepted[3] >= lastDownload[3]
    /\ ~Has(floodMap, 3)

----------------------------------------------------------------------------
(* Interleaved store writes. *)

(* C28: every content record is created under a code no record had: a      *)
(* step that reports a record added has put exactly one record, the        *)
(* actor's, under a code that was free; a Movie.create that resumes after  *)
(* another operator took the code leaves the collection as it was and      *)
(* reports an error.                                                       *)
C28_CodeUnique ==
    [][\A a \in Actors :
          /\ <<a, "content_added">> \in ev'.out
             => \E c \in Codes :
                   /\ ~Has(movies, c) /\ Has(movies', c)
                   /\ movies' = Put(movies, c, movies'[c])
                   /\ movies'[c].addedBy = a
          /\ ev'.op = "movie_create" /\ ev'.actor = a /\ Has(movies, pendingWrite[a].key)
             => /\ movies' = movies
                /\ ev'.out = {<<a, "system_error">>}
          /\ movies' # movies /\ ev'.actor = a /\ ev'.op \in {"message", "movie_create"}
             => <<a, "content_added">> \in ev'.out]_vars

C28_Witness ==
    /\ ev.op = "movie_create" /\ ev.out = {<<ev.actor, "system_error">>}
    /\ \E c \in DOMAIN movies : movies[c].addedBy # ev.actor
    /\ pendingWrite = Empty

(* C29: the episodes of every series are numbered 1..n in order, with no  *)
(* duplicate and no gap, also when the read-then-save sequences of two     *)
(* operators on one series interleave.                                     *)
C29_EpisodeNumbers ==
    \A c \in DOMAIN movies :
       \A i \in 1..Len(movies[c].episodes) : movies[c].episodes[i].number = i

(* C30: a del_admin_ action on actor A leaves no cache entry for A, so      *)
(* that isUserAdmin(A) answers false from then on and A's next admin-only  *)
(* button is ignored.                                                      *)
C30_DeleteInvalidates ==
    [][\A A \in Actors \ {superAdminId} :
          /\ ev'.op = "del_admin" /\ ev'.in.n = A /\ <<ev'.actor, "deleted">> \in ev'.out
             => ~Has(adminCache', A) /\ ~isUserAdminVal(World, A)'
          /\ ev'.op = "admin_home" /\ ev'.actor = A /\ ~Has(admins, A)
             => <<A, "admin_panel">> \notin ev'.out]_vars

----------------------------------------------------------------------------
(* Who manages the admin records. *)

(* C31: an update of an actor other than the super-operator creates no     *)
(* admin record, toggles no capability and deletes no record: the admin    *)
(* table is the same after it.                                             *)
C31_OnlySuperManages ==
    [][ev'.actor # superAdminId => admins' = admins]_vars

----------------------------------------------------------------------------
(* The stop flag across jobs. *)

(* C32: a stop request reaches only the job that is active when it is      *)
(* made: a job that starts has shouldStop cleared, whatever an earlier job *)
(* or request left in it; shouldStop is raised only by a stop_broadcast    *)
(* handled while a job is active; and a job ends as stopped only when it   *)
(* finds shouldStop set, so only after a request made since it started.    *)
C32_StopIsPerJob ==
    [][/\ \A a \in Actors :
             <<a, "broadcast_started">> \in ev'.out
             => /\ ~broadcastController'.shouldStop
                /\ Has(jobs', a) /\ ~Has(jobs, a)
       /\ ~broadcastController.shouldStop /\ broadcastController'.shouldStop
             => /\ ev'.op = "stop_broadcast"
                /\ broadcastController.isActive /\ jobs # Empty /\ jobs' = jobs
       /\ \A a \in Actors :
             <<a, "broadcast_stopped">> \in ev'.out
             => /\ Has(jobs, a) /\ broadcastController.shouldStop
                /\ broadcastController' = [isActive |-> FALSE, shouldStop |-> TRUE]]_vars

C32_Witness ==
    /\ ev.op = "start_broadcast" /\ <<ev.actor, "broadcast_started">> \in ev.out
    /\ ev.in.shouldStop
    /\ broadcastController = [isActive |-> TRUE, shouldStop |-> FALSE]
    /\ \E u \in DOMAIN users : ~users[u].isActive

----------------------------------------------------------------------------
(* The rate limiters and the sweep. *)

(* C33: a throttled call changes nothing: a message that the flood gate    *)
(* rejects leaves floodMap as it was and a download that the limiter       *)
(* rejects leaves downloadLimitMap as it was; and an input that arrives at *)
(* least one window after the actor's last accepted one is accepted and    *)
(* recorded, whatever was rejected in between.                             *)
C33_ThrottledChangesNothing ==
    [][\A a \in Actors :
          /\ ev'.op = "message" /\ ev'.actor = a
             => /\ isFloodingVal(Arrival, a)
                   => floodMap' = floodMap /\ lastAccepted' = lastAccepted
                /\ (Has(lastAccepted, a) => now' - lastAccepted[a] >= floodLimit)
                   => /\ ~isFloodingVal(Arrival, a)
                      /\ Has(floodMap', a) /\ floodMap'[a] = now'
          /\ ev'.op \in {"dl", "s_dl"} /\ ev'.actor = a
             => /\ <<a, "wait">> \in ev'.out
                   => downloadLimitMap' = downloadLimitMap
                /\ (Has(lastDownload, a) => now' - lastDownload[a] >= downloadCooldown)
                   => /\ <<a, "wait">> \notin ev'.out
                      /\ Has(downloadLimitMap', a) /\ downloadLimitMap'[a] = now']_vars

C33_Witness ==
    /\ ev.op = "message" /\ ev.actor = 3 /\ ev.out = {}
    /\ Has(floodMap, 3) /\ floodMap[3] = now - floodLimit \div 2
    /\ lastAccepted[3] = floodMap[3]
    /\ Has(downloadLimitMap, 3) /\ downloadLimitMap[3] = lastDownload[3]
    /\ lastDownload[3] < floodMap[3]

\* The moments at which the limiters are asked: now, and half a window or
\* a whole window of either limiter later.
Offsets == {0, floodLimit \div 2, floodLimit, downloadCooldown \div 2, downloadCooldown}

\* The answers of limiters that keep every accepted time for ever.
Unswept(t) ==
    [flood    |-> [a \in Actors |->
                      Has(lastAccepted, a) /\ now + t - lastAccepted[a] < floodLimit],
     download |-> [a \in Actors |->
                      Has(lastDownload, a) /\ now + t - lastDownload[a] < downloadCooldown]]

\* The answers of the limiters of the program.
Swept(t) ==
    LET w == [World EXCEPT !.now = now + t]
    IN  [flood    |-> [a \in Actors |-> isFloodingVal(w, a)],
         download |-> [a \in Actors |-> isDownloadFloodingVal(w, a)]]

(* C34: the sweep is invisible to the rate limiters: at every moment, now  *)
(* or later, isFlooding and isDownloadFlooding answer for every actor what *)
(* limiters that never forget an accepted time would answer; and the sweep *)
(* removes a flood entry only when it is older than twice floodLimit and a *)
(* download entry only when it is older than downloadCooldown.             *)
C34_SweepInvisible ==
    /\ [](\A t \in Offsets : Swept(t) = Unswept(t))
    /\ [][ev'.op = "cleanup"
          => /\ \A a \in DOMAIN floodMap :
                   /\ ~Has(floodMap', a) <=> now - floodMap[a] > 2 * floodLimit
                   /\ Has(floodMap', a) => floodMap'[a] = floodMap[a]
             /\ \A a \in DOMAIN downloadLimitMap :
                   /\ ~Has(downloadLimitMap', a) <=> now - downloadLimitMap[a] > downloadCooldown
                   /\ Has(downloadLimitMap', a) => downloadLimitMap'[a] = downloadLimitMap[a]
             /\ DOMAIN floodMap' \subseteq DOMAIN floodMap
             /\ DOMAIN downloadLimitMap' \subseteq DOMAIN downloadLimitMap]_vars

C34_Witness ==
    /\ ev.op = "cleanup"
    /\ ~Has(floodMap, 3) /\ Has(lastAccepted, 3)
    /\ now - lastAccepted[3] = downloadCooldown \div 2
    /\ Has(downloadLimitMap, 3) /\ now - downloadLimitMap[3] = downloadCooldown \div 2

----------------------------------------------------------------------------
(* AddChannel when the lookup fails. *)

(* C35: an input to the URL step of AddChannel either registers a channel  *)
(* or, when the transport cannot resolve it, is answered with the          *)
(* diagnostic alone: then no channel record is created or changed and the  *)
(* session stays as it was, at step URL with the name given, so that the   *)
(* next input is again taken as the link.  A numeric identifier needs no   *)
(* lookup and never fails this way.                                        *)
C35_LookupFailureKeepsSession ==
    [][\A a \in Actors :
          ReachesStep(a) /\ state[a].action = "ADD_CHANNEL" /\ state[a].step = "URL"
          => /\ <<a, "channel_error">> \in ev'.out <=> <<a, "channel_added">> \notin ev'.out
             /\ IsChannelId(ev'.in.text) => <<a, "channel_added">> \in ev'.out
             /\ <<a, "channel_error">> \in ev'.out
                => /\ ev'.out = {<<a, "channel_error">>}
                   /\ channels' = channels
                   /\ Has(state', a) /\ state'[a] = state[a]]_vars

C35_Witness ==
    /\ ev.op = "message" /\ ev.in = Text("https://t.me/testchan")
    /\ ev.out = {<<superAdminId, "channel_error">>}
    /\ Has(state, superAdminId) /\ state[superAdminId].action = "ADD_CHANNEL"
    /\ state[superAdminId].step = "URL" /\ state[superAdminId].data["name"] = "a&lt;b"
    /\ state[superAdminId].type = "main"
    /\ channels = [c \in {"-1001"} |-> StoredChannel]

----------------------------------------------------------------------------
(* The age of a session. *)

(* C36: the timestamp of a session is written only by the state.set that   *)
(* creates it: a step in which the timestamp of an actor's session is new  *)
(* or different is a step of that actor which stored a fresh session       *)
(* stamped with the time of the step; a wizard input and an adult_yes or   *)
(* adult_no answer leave the timestamp of the session they change as it    *)
(* was; so a message that arrives more than stateTTL after the session was *)
(* created finds it expired, even when the actor's last input was accepted *)
(* one flood window earlier.                                               *)
C36_TimestampAtCreation ==
    [][\A a \in Actors :
          /\ Has(state', a) /\ (~Has(state, a) \/ state'[a].timestamp # state[a].timestamp)
             => /\ state'[a].timestamp = now' /\ ev'.actor = a
                /\ state'[a].data = Empty /\ state'[a].tempEpisodeData = Empty
                /\ state'[a].msg = NoMsg
          /\ ReachesStep(a) /\ Has(state', a)
             => state'[a].timestamp = state[a].timestamp
          /\ ev'.op \in {"adult_yes", "adult_no"} /\ ev'.actor = a /\ Has(state, a)
             => Has(state', a) /\ state'[a].timestamp = state[a].timestamp
          /\ Accepted(a) /\ Stale(a) /\ ~users[a].isBanned
                /\ Has(lastAccepted, a) /\ now' - lastAccepted[a] <= floodLimit
             => ev'.out = {<<a, "session_expired">>} /\ ~Has(state', a)]_vars

C36_Witness ==
    /\ ev.op = "message" /\ ev.actor = 2 /\ ev.in = Video
    /\ Has(state, 2) /\ state[2].step = "POSTER"
    /\ lastAccepted[2] = now
    /\ now - state[2].timestamp = stateTTL + 1 - floodLimit

====
